---------------------------- MODULE Spec2Model ----------------------------
(***************************************************************************)
(* Model of the atmospheric-sky controller of the Rotating Glossy Cube    *)
(* demo: src/src/objects/sky.js (setupSky and the controller it returns)  *)
(* and src/src/shaders/skyboxShader.js (material construction, sun and    *)
(* moon updates, the day/night animation, quality auto-adjustment and the *)
(* preset catalog).                                                       *)
(*                                                                         *)
(* Numbers.  JavaScript numbers are modelled in fixed point: the integer  *)
(* n stands for the real n / Scale.  Angles in radians are fixed-point    *)
(* reals like every other number, so Math.PI is PI / Scale.  Products are *)
(* rounded to the nearest unit, half away from zero, which keeps          *)
(* multiplication sign-symmetric as IEEE multiplication is.  Math.sin is  *)
(* modelled by Bhaskara's rational approximation (absolute error below    *)
(* 0.002), which is odd, has period 2*PI and is exact at 0 and PI/2.      *)
(***************************************************************************)
EXTENDS Integers, Sequences, FiniteSets, TLC

VARIABLES
    uniforms,   \* skybox.material.uniforms: the controller's SkyParameters
    prev,       \* history: uniforms before the last operation (as constructed, at first)
    op,         \* history: the last operation and its arguments
    nops,       \* number of controller operations performed so far
    snapshot,   \* the object a getConfig() call returned to its caller, if any
    frame,      \* the host's render loop: where the current frame callback is
    spawnedCubes,   \* the cube spawner's list of { mesh, physicsBody }
    scene,      \* scene.children: the meshes in the THREE.js scene
    world,      \* world.bodies: the bodies in the physics world
    heap,       \* number of meshes (and of bodies) created so far
    pauseState, \* the object whose isPaused the loop and the handlers share
    pauseButton,    \* the Pause/Resume button
    loop,       \* history: what the animation loop's frames have done
    fragment    \* history: the fragment shader's evaluations

\* The application around the sky: cubes, physics, pause, shading.
appVars == <<spawnedCubes, scene, world, heap, pauseState, pauseButton, loop, fragment>>

vars == <<uniforms, prev, op, nops, snapshot, frame, appVars>>

-----------------------------------------------------------------------------
(* Bounds of the model *)

\* Number of controller operations after construction.
MaxOps == 3

\* setQuality and config.qualityLevel draw integers from -1 .. MaxLevel.
MaxLevel == 3

\* Number of controller operations after construction, where the claim is
\* about construction itself.
MaxSetupOps == 1

\* Number of calls after construction, direct calls of the shader module's
\* updateMoonPosition included.
MaxShaderOps == 2

\* Number of controller calls the render loop and the key handlers make.
MaxFrameCalls == 2

\* Number of calls after construction, getConfig() and writes through the
\* object it returned included.
MaxSnapshotOps == 2

\* Number of calls after construction, direct calls of the shader module's
\* updateSunFromSpherical included.
MaxSphericalOps == 2

\* Number of cubes spawned in all, where the claim is about the spawner: more
\* than the list may hold, so that the oldest cubes are evicted.
MaxSpawns == 52

\* Number of animation-frame callbacks, where the claim is about the loop.
MaxLoopFrames == 6

\* Number of evaluations of the sky's fragment shader, where the claim is
\* about repeated evaluations.
MaxEvaluations == 3

-----------------------------------------------------------------------------
(* Fixed-point arithmetic *)

\* The fixed-point representation of 1.0.
Scale == 1000

\* Math.PI, rounded to an even number of units so that PI/2 is exact.
PI == 3142

\* Rounding error allowed where the specification says "within epsilon".
Eps == Scale \div 250

Abs(a) == IF a < 0 THEN -a ELSE a

\* Math.max / Math.min
Max(a, b) == IF a >= b THEN a ELSE b
Min(a, b) == IF a <= b THEN a ELSE b

\* a / b for b > 0, rounded to nearest, half away from zero.
RDiv(a, b) == IF a >= 0 THEN (2 * a + b) \div (2 * b)
                        ELSE -((2 * (-a) + b) \div (2 * b))

\* a * b on fixed-point reals.
Mul(a, b) == RDiv(a * b, Scale)

\* a / b on fixed-point reals, b # 0.
Div(a, b) == IF b > 0 THEN RDiv(a * Scale, b) ELSE RDiv((-a) * Scale, -b)

RECURSIVE SqrtSearch(_, _, _)
SqrtSearch(n, lo, hi) ==
    IF lo >= hi THEN lo
    ELSE LET mid == (lo + hi + 1) \div 2
         IN  IF mid * mid <= n THEN SqrtSearch(n, mid, hi)
                               ELSE SqrtSearch(n, lo, mid - 1)

\* Math.sqrt of n / Scale^2, as a fixed-point real (rounded to nearest).
Sqrt(n) == LET f == SqrtSearch(n, 0, 4 * Scale)
           IN  IF n - f * f > f THEN f + 1 ELSE f

\* sin x for 0 <= x <= PI: 16 x (PI - x) / (5 PI^2 - 4 x (PI - x)).
BhaskaraSin(x) ==
    LET q == x * (PI - x)
        d == (5 * PI * PI) \div 4 - q
        n == 4 * q * (Scale \div 10)
    IN  10 * (n \div d) + RDiv(10 * (n % d), d)

\* Math.sin
Sin(x) == LET m == x % (2 * PI)
          IN  IF m <= PI THEN BhaskaraSin(m) ELSE -BhaskaraSin(m - PI)

\* Math.cos
Cos(x) == Sin(x + PI \div 2)

\* THREE.MathUtils.degToRad: degrees * (PI / 180).
degToRad(degrees) == RDiv(degrees * PI, 180 * Scale)

\* A whole number of degrees (or of seconds, frames per second, ...).
Whole(n) == n * Scale

-----------------------------------------------------------------------------
(* THREE.Vector3 *)

Vector3(x, y, z) == [x |-> x, y |-> y, z |-> z]

\* Vector3.setFromSphericalCoords(radius, phi, theta)
setFromSphericalCoords(radius, phi, theta) ==
    LET sinPhiRadius == Mul(Sin(phi), radius)
    IN  Vector3(Mul(sinPhiRadius, Sin(theta)),
                Mul(Cos(phi), radius),
                Mul(sinPhiRadius, Cos(theta)))

\* Vector3.length()
Length(v) == Sqrt(v.x * v.x + v.y * v.y + v.z * v.z)

\* Vector3.normalize(): divideScalar(length() || 1)
normalize(v) ==
    LET len == IF Length(v) = 0 THEN Scale ELSE Length(v)
    IN  Vector3(Div(v.x, len), Div(v.y, len), Div(v.z, len))

Neg(v) == Vector3(-v.x, -v.y, -v.z)

-----------------------------------------------------------------------------
(* GLSL built-in functions, on fixed-point reals and on vec3 *)

\* GLSL evaluates an expression once where it stands: the operators of this
\* section take the value of each argument once, as the one element of a set.

\* A local variable: F of the value of v.
Let(v, F(_)) == CHOOSE r \in {F(x) : x \in {v}} : TRUE

vec3(c) == CHOOSE r \in {Vector3(v, v, v) : v \in {c}} : TRUE

plus(a, b) ==
    CHOOSE r \in {Vector3(p.x + q.x, p.y + q.y, p.z + q.z) : p \in {a}, q \in {b}} : TRUE

minus(a, b) ==
    CHOOSE r \in {Vector3(p.x - q.x, p.y - q.y, p.z - q.z) : p \in {a}, q \in {b}} : TRUE

times(a, b) ==
    CHOOSE r \in {Vector3(Mul(p.x, q.x), Mul(p.y, q.y), Mul(p.z, q.z)) :
                  p \in {a}, q \in {b}} : TRUE

scaled(a, c) ==
    CHOOSE r \in {Vector3(Mul(p.x, s), Mul(p.y, s), Mul(p.z, s)) : p \in {a}, s \in {c}} : TRUE

Map3(F(_), a) == CHOOSE r \in {Vector3(F(p.x), F(p.y), F(p.z)) : p \in {a}} : TRUE

dot(a, b) ==
    CHOOSE r \in {Mul(p.x, q.x) + Mul(p.y, q.y) + Mul(p.z, q.z) : p \in {a}, q \in {b}} : TRUE

\* The integer square root of n, rounded to nearest, for roots up to 46.
root(n) ==
    CHOOSE r \in {IF n - f * f > f THEN f + 1 ELSE f : f \in {SqrtSearch(n, 0, 46 * Scale)}} :
        TRUE

\* length(v), for vectors of length up to 46.
length(v) == CHOOSE r \in {root(p.x * p.x + p.y * p.y + p.z * p.z) : p \in {v}} : TRUE

\* a / c, a vector by a number.
over(a, c) ==
    CHOOSE r \in {Vector3(Div(p.x, l), Div(p.y, l), Div(p.z, l)) : p \in {a}, l \in {c}} : TRUE

\* normalize(v) for a vector of non-zero length; the result for the zero
\* vector is undefined in GLSL, and callers of this operator say so.
glNormalize(v) == CHOOSE r \in {over(p, length(p)) : p \in {v}} : TRUE

clamp(x, lo, hi) == CHOOSE r \in {Min(Max(v, l), h) : v \in {x}, l \in {lo}, h \in {hi}} : TRUE

\* mix(x, y, a) = x * (1 - a) + y * a
mix(x, y, a) ==
    CHOOSE r \in {Mul(p, Scale - t) + Mul(q, t) : p \in {x}, q \in {y}, t \in {a}} : TRUE

mix3(x, y, a) ==
    CHOOSE r \in {Vector3(mix(p.x, q.x, t), mix(p.y, q.y, t), mix(p.z, q.z, t)) :
                  p \in {x}, q \in {y}, t \in {a}} : TRUE

floor(x) == CHOOSE r \in {v - (v % Scale) : v \in {x}} : TRUE
fract(x) == x % Scale

\* t * t * (3 - 2 * t)
hermite(x) == CHOOSE r \in {Mul(Mul(t, t), 3 * Scale - 2 * t) : t \in {x}} : TRUE

\* smoothstep(edge0, edge1, x): t = clamp((x - edge0) / (edge1 - edge0), 0, 1),
\* t * t * (3 - 2 * t).  Edges that differ by less than the resolution of
\* the fixed-point numbers leave a step at the edge.
smoothstep(edge0, edge1, x) ==
    CHOOSE r \in {IF e0 = e1
                  THEN IF v < e0 THEN 0 ELSE Scale
                  ELSE hermite(clamp(Div(v - e0, e1 - e0), 0, Scale)) :
                  e0 \in {edge0}, e1 \in {edge1}, v \in {x}} : TRUE

\* fract(a * b), formed without the whole part of the product.
fractMul(a, b) ==
    CHOOSE r \in {((p \div Scale) * (q % Scale) + (p % Scale) * (q \div Scale)
                   + ((p % Scale) * (q % Scale)) \div Scale) % Scale :
                  p \in {a}, q \in {b}} : TRUE

\* a * b where a may be large: the whole and the fractional part of a apart.
mul(a, b) ==
    CHOOSE r \in {(p \div Scale) * q + RDiv((p % Scale) * q, Scale) : p \in {a}, q \in {b}} : TRUE

\* e^-n for a whole n >= 0, by repeated multiplication with 1/e.
RECURSIVE ExpNegWhole(_)
ExpNegWhole(n) ==
    IF n = 0 THEN Scale
    ELSE IF n > 7 THEN 0
    ELSE Mul(ExpNegWhole(n - 1), RDiv(Scale * 1000, 2718))

\* e^-f for 0 <= f < 1, by the Taylor polynomial of degree 6.
ExpNegFraction(f) ==
    LET f2 == Mul(f, f)
        f3 == Mul(f2, f)
        f4 == Mul(f3, f)
        f5 == Mul(f4, f)
        f6 == Mul(f5, f)
    IN  RDiv(720 * Scale - 720 * f + 360 * f2 - 120 * f3 + 30 * f4 - 6 * f5 + f6, 720)

\* exp(x), for x <= 6.
exp(x) ==
    CHOOSE r \in {IF v <= 0
                  THEN Mul(ExpNegWhole((-v) \div Scale), ExpNegFraction((-v) % Scale))
                  ELSE Div(Scale, Max(1, Mul(ExpNegWhole(v \div Scale),
                                             ExpNegFraction(v % Scale)))) :
                  v \in {x}} : TRUE

\* log(x) for x > 0: the largest l in lo .. hi with exp(l) <= x.
RECURSIVE LogSearch(_, _, _)
LogSearch(x, lo, hi) ==
    IF lo >= hi THEN lo
    ELSE CHOOSE r \in {IF exp(mid) <= x THEN LogSearch(x, mid, hi)
                                         ELSE LogSearch(x, lo, mid - 1) :
                       mid \in {lo + (hi - lo + 1) \div 2}} : TRUE

log(x) == CHOOSE r \in {IF v = Scale THEN 0 ELSE LogSearch(v, -7 * Scale, 6 * Scale) :
                        v \in {x}} : TRUE

\* pow(x, y) for x >= 0 (undefined in GLSL for x < 0, and for x = 0 with
\* y <= 0): exp(y * log(x)).
pow(x, y) == CHOOSE r \in {IF v = 0 THEN 0 ELSE exp(Mul(w, log(v))) : v \in {x}, w \in {y}} : TRUE

-----------------------------------------------------------------------------
(* JavaScript objects as functions from keys to values *)

\* The object with no keys; also what spreading undefined contributes.
EmptyObject == [k \in {} |-> 0]

\* { ...a, ...b }
Spread(a, b) ==
    [k \in (DOMAIN a) \cup (DOMAIN b) |-> IF k \in DOMAIN b THEN b[k] ELSE a[k]]

\* options.key || fallback, for a numeric option: absent and 0 are both falsy.
OrDefault(options, key, fallback) ==
    IF key \in DOMAIN options /\ options[key] # 0 THEN options[key] ELSE fallback

-----------------------------------------------------------------------------
(* The preset catalog *)

\* The twelve fields every catalog entry defines, in the order of the source.
PresetKeys == <<"turbidity", "rayleigh", "mieCoefficient", "mieDirectionalG", "sunIntensity", "cloudCoverage", "starIntensity", "moonIntensity", "enableStars", "enableClouds", "enableMoon", "enableSunDisc">>

\* The object literal with those keys and the given values.
Preset(values) == [k \in {PresetKeys[i] : i \in DOMAIN PresetKeys} |-> values[CHOOSE i \in DOMAIN PresetKeys : PresetKeys[i] = k]]

SkyPresets ==
    [CLEAR_DAY   |-> Preset(<<2000, 1000, 5, 800, 1000, 350, 500, 200, TRUE, TRUE, TRUE, TRUE>>),
     OVERCAST    |-> Preset(<<10000, 2000, 20, 500, 500, 800, 0, 0, FALSE, TRUE, FALSE, FALSE>>),
     SUNSET      |-> Preset(<<4000, 2000, 10, 900, 1500, 300, 300, 800, TRUE, TRUE, TRUE, TRUE>>),
     NIGHT       |-> Preset(<<1000, 500, 2, 800, 100, 0, 1000, 1500, TRUE, FALSE, TRUE, FALSE>>),
     HAZY_SUMMER |-> Preset(<<6000, 1500, 15, 700, 1200, 200, 200, 300, TRUE, TRUE, TRUE, TRUE>>)]

PresetNames == DOMAIN SkyPresets

\* SkyPresets[name] as spread into an object literal: undefined adds no key.
PresetOrNothing(name) ==
    IF name \in PresetNames THEN SkyPresets[name] ELSE EmptyObject

-----------------------------------------------------------------------------
(* skyboxShader.js *)

defaults ==
    [turbidity |-> 2000, rayleigh |-> 1000, mieCoefficient |-> 5,
     mieDirectionalG |-> 800, sunIntensity |-> 1000, cloudCoverage |-> 400,
     starIntensity |-> 500, moonIntensity |-> 1000,
     enableStars |-> TRUE, enableClouds |-> TRUE, enableMoon |-> TRUE,
     enableSunDisc |-> TRUE, qualityLevel |-> 1]

\* createSkyboxMaterial(options): the uniforms of the new material.
createSkyboxMaterial(options) ==
    LET settings == Spread(defaults, options)
    IN  [sunDirection    |-> Vector3(0, Scale, 0),
         sunIntensity    |-> settings["sunIntensity"],
         moonDirection   |-> normalize(Vector3(0, -(Scale \div 2), Scale)),
         moonIntensity   |-> settings["moonIntensity"],
         turbidity       |-> settings["turbidity"],
         rayleighCoeff   |-> settings["rayleigh"],
         mieCoeff        |-> settings["mieCoefficient"],
         mieDirectionalG |-> settings["mieDirectionalG"],
         timeOfDay       |-> Scale \div 2,
         cloudCoverage   |-> settings["cloudCoverage"],
         starIntensity   |-> settings["starIntensity"],
         time            |-> 0,
         enableStars     |-> settings["enableStars"],
         enableClouds    |-> settings["enableClouds"],
         enableMoon      |-> settings["enableMoon"],
         enableSunDisc   |-> settings["enableSunDisc"],
         qualityLevel    |-> settings["qualityLevel"]]

\* The uniform that createSkyboxMaterial fills from a settings key.
uniformFor(key) ==
    CASE key = "rayleigh" -> "rayleighCoeff"
      [] key = "mieCoefficient" -> "mieCoeff"
      [] OTHER -> key

\* Variant: the optional intensity is written although none was given.
updateSunPosition_WritesIntensity(material, azimuth, elevation) ==
    [material EXCEPT
        !.sunDirection = Vector3(Mul(Cos(elevation), Sin(azimuth)),
                                 Sin(elevation),
                                 Mul(Cos(elevation), Cos(azimuth))),
        !.sunIntensity = Scale,
        !.timeOfDay = Mul(Sin(elevation) + Scale, Scale \div 2)]

\* updateSunPosition(material, azimuth, elevation), intensity left null.
updateSunPosition(material, azimuth, elevation) ==
    [material EXCEPT
        !.sunDirection = Vector3(Mul(Cos(elevation), Sin(azimuth)),
                                 Sin(elevation),
                                 Mul(Cos(elevation), Cos(azimuth))),
        !.timeOfDay = Mul(Sin(elevation) + Scale, Scale \div 2)]

\* Variant: the direction is written but timeOfDay is left as it was.
updateSunFromSpherical_StaleTimeOfDay(material, radius, phi, theta) ==
    [material EXCEPT
        !.sunDirection = normalize(setFromSphericalCoords(radius, phi, theta))]

\* updateSunFromSpherical(material, radius, phi, theta)
updateSunFromSpherical(material, radius, phi, theta) ==
    LET sunPosition == normalize(setFromSphericalCoords(radius, phi, theta))
    IN  [material EXCEPT
            !.sunDirection = sunPosition,
            !.timeOfDay = Mul(sunPosition.y + Scale, Scale \div 2)]

\* Variant: the horizontal components are not scaled by cos(elevation).
updateMoonPosition_NoCosElevation(material, azimuth, elevation) ==
    [material EXCEPT
        !.moonDirection = Vector3(Sin(azimuth), Sin(elevation), Cos(azimuth))]

\* updateMoonPosition(material, azimuth, elevation), intensity left null.
updateMoonPosition(material, azimuth, elevation) ==
    [material EXCEPT
        !.moonDirection = Vector3(Mul(Cos(elevation), Sin(azimuth)),
                                  Sin(elevation),
                                  Mul(Cos(elevation), Cos(azimuth)))]

\* updateMoonPosition(material, azimuth, elevation, intensity), intensity given.
updateMoonPositionIntensity(material, azimuth, elevation, intensity) ==
    [updateMoonPosition(material, azimuth, elevation) EXCEPT
        !.moonIntensity = intensity]

\* The sun's elevation on its circular path: sin(angle) * PI * 0.4.
sunElevation(angle) == Mul(Mul(Sin(angle), PI), (4 * Scale) \div 10)

\* The moon is placed opposite the sun.
moonElevation(e) == -e

\* Variant: the 180 degree offset is missing.
moonAzimuth_NoOffset(azimuth) == azimuth

moonAzimuth(azimuth) == azimuth + PI

\* Variant: the factor is not floored at 0.
nightFactor_Unclamped(e) == -Sin(e)

\* Math.max(0, -Math.sin(elevation))
nightFactor(e) == Max(0, -Sin(e))

\* Variant: the variation follows sin(angle) itself, which changes sign.
coverageVariation_Signed(angle) == Mul(Sin(angle), (2 * Scale) \div 10)

\* Math.sin(timeOfDay * PI) * 0.2 with timeOfDay = (sin(angle) + 1) * 0.5
coverageVariation(angle) ==
    LET timeOfDay == Mul(Sin(angle) + Scale, Scale \div 2)
    IN  Mul(Sin(Mul(timeOfDay, PI)), (2 * Scale) \div 10)

\* animateDayNightCycle(material, time, speed)
animateDayNightCycle(material, time, speed) ==
    LET angle == Mul(time, speed)
        azimuth == angle
        m1 == [material EXCEPT !.time = time]
        m2 == updateSunPosition(m1, azimuth, sunElevation(angle))
        m3 == updateMoonPosition(m2, moonAzimuth(azimuth),
                                 moonElevation(sunElevation(angle)))
        m4 == [m3 EXCEPT !.moonIntensity =
                             Mul(nightFactor(sunElevation(angle)), (15 * Scale) \div 10)]
        baseCoverage == m4.cloudCoverage
    IN  [m4 EXCEPT !.cloudCoverage =
                       Max(0, baseCoverage - coverageVariation(angle))]

\* Variant: below the band the quality drops to the lowest level at once.
autoAdjustQuality_DropToLowest(material, currentFPS, targetFPS) ==
    IF currentFPS < Mul(targetFPS, (8 * Scale) \div 10)
    THEN [material EXCEPT !.qualityLevel = 0]
    ELSE IF currentFPS > Mul(targetFPS, (95 * Scale) \div 100)
         THEN [material EXCEPT !.qualityLevel = Min(2, material.qualityLevel + 1)]
         ELSE material

\* Variant: quality is lowered without the check that it is above 0.
autoAdjustQuality_NoFloor(material, currentFPS, targetFPS) ==
    IF currentFPS < Mul(targetFPS, (8 * Scale) \div 10)
    THEN [material EXCEPT !.qualityLevel = material.qualityLevel - 1]
    ELSE IF currentFPS > Mul(targetFPS, (95 * Scale) \div 100)
         THEN [material EXCEPT !.qualityLevel = Min(2, material.qualityLevel + 1)]
         ELSE material

\* autoAdjustQuality(material, currentFPS, targetFPS)
autoAdjustQuality(material, currentFPS, targetFPS) ==
    LET currentQuality == material.qualityLevel
    IN  IF currentFPS < Mul(targetFPS, (8 * Scale) \div 10)
        THEN IF currentQuality > 0
             THEN [material EXCEPT !.qualityLevel = currentQuality - 1]
             ELSE material
        ELSE IF currentFPS > Mul(targetFPS, (95 * Scale) \div 100)
        THEN IF currentQuality < 2
             THEN [material EXCEPT !.qualityLevel = currentQuality + 1]
             ELSE material
        ELSE material

-----------------------------------------------------------------------------
(* sky.js: setupSky and the controller *)

\* Variant: the named preset is ignored and CLEAR_DAY is always the base.
setupSky_ClearDayOnly(options) ==
    LET config == Spread(SkyPresets["CLEAR_DAY"], options)
        skybox == createSkyboxMaterial(config)
        phi == degToRad(OrDefault(options, "sunElevation", Whole(60)))
        theta == degToRad(OrDefault(options, "sunAzimuth", Whole(180)))
    IN  updateSunFromSpherical(skybox, Scale, phi, theta)

\* setupSky(scene, options): the uniforms of the skybox material it builds.
setupSky(options) ==
    LET config == IF "preset" \in DOMAIN options
                  THEN Spread(PresetOrNothing(options["preset"]), options)
                  ELSE Spread(SkyPresets["CLEAR_DAY"], options)
        skybox == createSkyboxMaterial(config)
        phi == degToRad(OrDefault(options, "sunElevation", Whole(60)))
        theta == degToRad(OrDefault(options, "sunAzimuth", Whole(180)))
    IN  updateSunFromSpherical(skybox, Scale, phi, theta)

setSunPosition(material, elevation, azimuth) ==
    LET phi == degToRad(Whole(90) - elevation)
        theta == degToRad(azimuth)
    IN  updateSunFromSpherical(material, Scale, phi, theta)

\* Variant: time is taken as a delta and added to the animated time.
animate_Relative(material, time, speed) ==
    animateDayNightCycle(material, material.time + time, speed)

animate(material, time, speed) == animateDayNightCycle(material, time, speed)

updateTime(material, time) == [material EXCEPT !.time = time]

setQuality(material, level) ==
    [material EXCEPT !.qualityLevel = Max(0, Min(2, level))]

\* Variant: the value is stored as given.
setCloudCoverage_NoClamp(material, coverage) ==
    [material EXCEPT !.cloudCoverage = coverage]

setCloudCoverage(material, coverage) ==
    [material EXCEPT !.cloudCoverage = Max(0, Min(Scale, coverage))]

setStarsEnabled(material, enabled) == [material EXCEPT !.enableStars = enabled]

setCloudsEnabled(material, enabled) == [material EXCEPT !.enableClouds = enabled]

setMoonEnabled(material, enabled) == [material EXCEPT !.enableMoon = enabled]

setSunDiscEnabled(material, enabled) == [material EXCEPT !.enableSunDisc = enabled]

setMoonIntensity(material, intensity) ==
    [material EXCEPT !.moonIntensity = Max(0, Min(2 * Scale, intensity))]

\* Variant: the material is rebuilt from the preset.
applyPreset_Rebuild(material, presetName) ==
    IF presetName \in PresetNames
    THEN createSkyboxMaterial(SkyPresets[presetName])
    ELSE material

\* Variant: an unknown name falls back to CLEAR_DAY, as setupSky's default does.
applyPreset_FallbackClearDay(material, presetName) ==
    LET preset == IF presetName \in PresetNames THEN SkyPresets[presetName]
                  ELSE SkyPresets["CLEAR_DAY"]
    IN  [key \in DOMAIN material |->
            IF key \in DOMAIN preset THEN preset[key] ELSE material[key]]

\* applyPreset(presetName): every key of the preset that names a uniform.
applyPreset(material, presetName) ==
    IF presetName \in PresetNames
    THEN LET preset == SkyPresets[presetName]
         IN  [key \in DOMAIN material |->
                 IF key \in DOMAIN preset THEN preset[key] ELSE material[key]]
    ELSE material

\* The fields whose value is a THREE.Vector3, an object with an identity.  The
\* uniform's Vector3 is the same object for the life of the material (the
\* updates copy() into it); an object field holding a Vector3 holds either one
\* of its own, modelled by its value, or the uniform's, modelled by Ref.
VectorKeys == {"sunDirection", "moonDirection"}

\* The uniform's own Vector3, as opposed to a clone() of it.
Ref(key) == [ref |-> key]

\* What reading config[key] gives, the controller's uniforms being material.
Read(config, key, material) ==
    IF key \in VectorKeys /\ "ref" \in DOMAIN config[key]
    THEN material[config[key].ref]
    ELSE config[key]

\* Variant: the vectors are returned without clone().
getConfig_NoClone(material) ==
    [sunDirection    |-> Ref("sunDirection"),
     sunIntensity    |-> material.sunIntensity,
     moonDirection   |-> Ref("moonDirection"),
     moonIntensity   |-> material.moonIntensity,
     turbidity       |-> material.turbidity,
     rayleighCoeff   |-> material.rayleighCoeff,
     mieCoeff        |-> material.mieCoeff,
     mieDirectionalG |-> material.mieDirectionalG,
     cloudCoverage   |-> material.cloudCoverage,
     starIntensity   |-> material.starIntensity,
     time            |-> material.time,
     enableStars     |-> material.enableStars,
     enableClouds    |-> material.enableClouds,
     enableMoon      |-> material.enableMoon,
     enableSunDisc   |-> material.enableSunDisc,
     qualityLevel    |-> material.qualityLevel]

\* getConfig(): the snapshot object.
getConfig(material) ==
    [sunDirection    |-> material.sunDirection,
     sunIntensity    |-> material.sunIntensity,
     moonDirection   |-> material.moonDirection,
     moonIntensity   |-> material.moonIntensity,
     turbidity       |-> material.turbidity,
     rayleighCoeff   |-> material.rayleighCoeff,
     mieCoeff        |-> material.mieCoeff,
     mieDirectionalG |-> material.mieDirectionalG,
     cloudCoverage   |-> material.cloudCoverage,
     starIntensity   |-> material.starIntensity,
     time            |-> material.time,
     enableStars     |-> material.enableStars,
     enableClouds    |-> material.enableClouds,
     enableMoon      |-> material.enableMoon,
     enableSunDisc   |-> material.enableSunDisc,
     qualityLevel    |-> material.qualityLevel]

-----------------------------------------------------------------------------
(* Inputs *)

\* An options object with the given keys.
Opt1(k1, v1) == [k \in {k1} |-> v1]
Opt2(k1, v1, k2, v2) == [k \in {k1, k2} |-> IF k = k1 THEN v1 ELSE v2]

\* Integer quality levels, in and out of the range 0..2.
Levels == -1 .. MaxLevel

\* The options objects setupSky is called with.
Configs ==
    << EmptyObject,
       Opt2("preset", "CLEAR_DAY", "qualityLevel", 1),
       Spread(Opt2("preset", "SUNSET", "qualityLevel", 2),
              Opt1("cloudCoverage", 300)),
       Opt1("preset", "NIGHT"),
       Opt1("preset", "OVERCAST"),
       Opt1("preset", "DOES_NOT_EXIST"),
       Opt2("sunElevation", Whole(30), "sunAzimuth", Whole(90)),
       Opt2("cloudCoverage", 0, "enableStars", FALSE),
       Opt1("qualityLevel", -1),
       Opt1("qualityLevel", MaxLevel) >>

\* Preset names passed to applyPreset: the catalog and a name outside it.
PresetArgs == PresetNames \cup {"DOES_NOT_EXIST"}

\* setSunPosition(elevation, azimuth), in degrees.
SunPositions ==
    { <<Whole(-90), Whole(0)>>, <<Whole(-30), Whole(90)>>, <<Whole(0), Whole(0)>>,
      <<Whole(45), Whole(270)>>, <<Whole(90), Whole(180)>> }

\* animate(time, speed): seconds and radians per second.
Times == { Whole(0), Whole(8), Whole(24) }
Speeds == { Scale \div 10, (2 * Scale) \div 10 }

\* setCloudCoverage(coverage)
Coverages == { -(Scale \div 4), 0, (6 * Scale) \div 10, Scale, (7 * Scale) \div 4 }

\* setMoonIntensity(intensity)
Intensities == { -(Scale \div 2), (7 * Scale) \div 10, (5 * Scale) \div 2 }

\* autoAdjustQuality(currentFPS, targetFPS)
FPSs == { Whole(40), Whole(50), Whole(59) }
TargetFPS == Whole(60)

-----------------------------------------------------------------------------
(* The application around the sky, as main.js constructs it *)

\* scene.add(glossyCube), scene.add(floor), setupLighting, setupSky.
SceneObjects == {"glossyCube", "floor", "ambientLight", "pointLight", "sky"}

\* createGround(physicsWorld), attachPhysicsBody(glossyCube, physicsWorld, 0).
WorldBodies == {"ground", "glossyCubeBody"}

\* No frame has run yet.
NoLoop == [frames |-> 0, physicsSteps |-> 0, rotations |-> 0, renders |-> 0,
           last |-> [ran |-> FALSE]]

\* No fragment has been shaded yet.
NoFragment == [evaluated |-> FALSE, count |-> 0, shader |-> "none"]

\* The button is created with the label Pause (the glyph before the word is
\* left out of the model, here and in the handlers).
InitApp ==
    /\ spawnedCubes = <<>>
    /\ scene = SceneObjects
    /\ world = WorldBodies
    /\ heap = 0
    /\ pauseState = [isPaused |-> FALSE]
    /\ pauseButton = [textContent |-> "Pause"]
    /\ loop = NoLoop
    /\ fragment = NoFragment

-----------------------------------------------------------------------------
(* The state machine *)

\* No getConfig() call has been made yet.
NoSnapshot == [taken |-> FALSE]

\* No render loop is running: the controller is driven by direct calls.
NoFrame == [pc |-> "none"]

Init ==
    \E i \in DOMAIN Configs :
        /\ uniforms = setupSky(Configs[i])
        /\ prev = setupSky(Configs[i])
        /\ op = [name |-> "setupSky", options |-> Configs[i]]
        /\ nops = 0
        /\ snapshot = NoSnapshot
        /\ InitApp
        /\ frame = NoFrame

\* main.js: setupSky(scene), with no options.
InitMain ==
    /\ uniforms = setupSky(EmptyObject)
    /\ prev = setupSky(EmptyObject)
    /\ op = [name |-> "setupSky", options |-> EmptyObject]
    /\ nops = 0
    /\ snapshot = NoSnapshot
    /\ frame = NoFrame
    /\ InitApp

\* One controller operation: the uniforms after it, and its record.
Step(after, record) ==
    /\ nops < MaxOps
    /\ uniforms' = after
    /\ prev' = uniforms
    /\ op' = record
    /\ nops' = nops + 1
    /\ UNCHANGED <<snapshot, frame>>
    /\ UNCHANGED appVars

SetSunPosition ==
    \E p \in SunPositions :
        Step(setSunPosition(uniforms, p[1], p[2]),
             [name |-> "setSunPosition", elevation |-> p[1], azimuth |-> p[2]])

Animate ==
    \E t \in Times, s \in Speeds :
        Step(animate(uniforms, t, s), [name |-> "animate", time |-> t, speed |-> s])

UpdateTime ==
    \E t \in Times :
        Step(updateTime(uniforms, t), [name |-> "updateTime", time |-> t])

SetQuality ==
    \E level \in Levels :
        Step(setQuality(uniforms, level), [name |-> "setQuality", level |-> level])

SetCloudCoverage ==
    \E c \in Coverages :
        Step(setCloudCoverage(uniforms, c),
             [name |-> "setCloudCoverage", coverage |-> c])

SetStarsEnabled ==
    \E b \in BOOLEAN :
        Step(setStarsEnabled(uniforms, b), [name |-> "setStarsEnabled", enabled |-> b])

SetCloudsEnabled ==
    \E b \in BOOLEAN :
        Step(setCloudsEnabled(uniforms, b), [name |-> "setCloudsEnabled", enabled |-> b])

SetMoonEnabled ==
    \E b \in BOOLEAN :
        Step(setMoonEnabled(uniforms, b), [name |-> "setMoonEnabled", enabled |-> b])

SetSunDiscEnabled ==
    \E b \in BOOLEAN :
        Step(setSunDiscEnabled(uniforms, b),
             [name |-> "setSunDiscEnabled", enabled |-> b])

SetMoonIntensity ==
    \E x \in Intensities :
        Step(setMoonIntensity(uniforms, x),
             [name |-> "setMoonIntensity", intensity |-> x])

ApplyPreset ==
    \E n \in PresetArgs :
        Step(applyPreset(uniforms, n), [name |-> "applyPreset", presetName |-> n])

AutoAdjustQuality ==
    \E fps \in FPSs :
        Step(autoAdjustQuality(uniforms, fps, TargetFPS),
             [name |-> "autoAdjustQuality", currentFPS |-> fps,
              targetFPS |-> TargetFPS])

Next ==
    \/ SetSunPosition
    \/ Animate
    \/ UpdateTime
    \/ SetQuality
    \/ SetCloudCoverage
    \/ SetStarsEnabled
    \/ SetCloudsEnabled
    \/ SetMoonEnabled
    \/ SetSunDiscEnabled
    \/ SetMoonIntensity
    \/ ApplyPreset
    \/ AutoAdjustQuality

Spec == Init /\ [][Next]_vars

-----------------------------------------------------------------------------
(* Construction: every catalog preset alone and every sun position alone *)

\* The options objects of the construction claims: those of Configs, each
\* catalog preset with no other option, and each of SunPositions.
SetupConfigs ==
    Configs \o
    << Opt1("preset", "CLEAR_DAY"),
       Opt1("preset", "SUNSET"),
       Opt1("preset", "HAZY_SUMMER"),
       Opt2("sunElevation", Whole(-90), "sunAzimuth", Whole(0)),
       Opt2("sunElevation", Whole(-30), "sunAzimuth", Whole(90)),
       Opt2("sunElevation", Whole(0), "sunAzimuth", Whole(0)),
       Opt2("sunElevation", Whole(45), "sunAzimuth", Whole(270)),
       Opt2("sunElevation", Whole(90), "sunAzimuth", Whole(180)) >>

InitSetup ==
    \E i \in DOMAIN SetupConfigs :
        /\ uniforms = setupSky(SetupConfigs[i])
        /\ prev = setupSky(SetupConfigs[i])
        /\ op = [name |-> "setupSky", options |-> SetupConfigs[i]]
        /\ nops = 0
        /\ snapshot = NoSnapshot
        /\ InitApp
        /\ frame = NoFrame

\* The controller's operations, on the freshly constructed sky.
SetupNext == nops < MaxSetupOps /\ Next

SetupSpec == InitSetup /\ [][SetupNext]_vars

-----------------------------------------------------------------------------
(* The shader module's updateMoonPosition, called on controller.material *)

\* updateMoonPosition(material, azimuth, elevation, ...), in radians.
MoonPositions ==
    { <<0, 0>>, <<PI \div 2, (7 * Scale) \div 10>>, <<PI, -(Scale \div 2)>>,
      <<Scale, Scale>>, <<4 * Scale, PI \div 2>>, <<(11 * Scale) \div 2, -(PI \div 2)>> }

\* The optional intensity: << >> when the argument is left out (null).
MoonIntensityArgs == { << >> } \cup { <<x>> : x \in Intensities }

UpdateMoonPosition ==
    \E p \in MoonPositions, i \in MoonIntensityArgs :
        nops < MaxShaderOps /\
        Step(IF i = << >>
             THEN updateMoonPosition(uniforms, p[1], p[2])
             ELSE updateMoonPositionIntensity(uniforms, p[1], p[2], i[1]),
             [name |-> "updateMoonPosition", azimuth |-> p[1], elevation |-> p[2],
              intensity |-> i])

ShaderNext ==
    \/ nops < MaxShaderOps /\ Next
    \/ UpdateMoonPosition

ShaderSpec == Init /\ [][ShaderNext]_vars

-----------------------------------------------------------------------------
(* Snapshots: getConfig() and what its caller does with the object *)

\* Vectors a caller writes into a vector of the snapshot (Vector3.set).
SnapshotWrites == { Vector3(0, 0, 0), Vector3(Scale, 0, 0) }

\* config = controller.getConfig(); atCall is history: the uniforms at the call.
GetConfig ==
    /\ nops < MaxSnapshotOps
    /\ snapshot' = [taken |-> TRUE, config |-> getConfig(uniforms), atCall |-> uniforms]
    /\ prev' = uniforms
    /\ op' = [name |-> "getConfig"]
    /\ nops' = nops + 1
    /\ UNCHANGED <<uniforms, frame>>
    /\ UNCHANGED appVars

\* config[key].set(x, y, z): written into the Vector3 that config[key] holds.
\* atCall follows a write the caller made to the snapshot's own object.
MutateSnapshot ==
    /\ nops < MaxSnapshotOps
    /\ snapshot.taken
    /\ \E key \in VectorKeys, v \in SnapshotWrites :
           /\ IF "ref" \in DOMAIN snapshot.config[key]
              THEN /\ uniforms' = [uniforms EXCEPT ![snapshot.config[key].ref] = v]
                   /\ UNCHANGED snapshot
              ELSE /\ snapshot' = [snapshot EXCEPT !.config[key] = v, !.atCall[key] = v]
                   /\ UNCHANGED uniforms
           /\ op' = [name |-> "mutateSnapshot", key |-> key, value |-> v]
    /\ prev' = uniforms
    /\ nops' = nops + 1
    /\ UNCHANGED frame
    /\ UNCHANGED appVars

SnapshotNext ==
    \/ nops < MaxSnapshotOps /\ Next
    \/ GetConfig
    \/ MutateSnapshot

SnapshotSpec == Init /\ [][SnapshotNext]_vars

-----------------------------------------------------------------------------
(* The host: skyboxDemo.js driven by the render loop and the key handlers *)

\* The uniforms a call writes, in the order of its assignments.
AnimateOrder == <<"time", "sunDirection", "timeOfDay", "moonDirection", "moonIntensity", "cloudCoverage">>
SunOrder == <<"sunDirection", "timeOfDay">>
WeatherOrder == <<"cloudCoverage", "turbidity">>

\* demo.setTimeOfDay(hour)
setTimeOfDay(material, hour) ==
    LET normalizedTime == Div(hour, Whole(24))
        sunAngle == Mul(normalizedTime, 2 * PI) - PI \div 2
        elevation == Mul(Sin(sunAngle), Whole(90))
    IN  setSunPosition(material, elevation, Whole(180))

\* demo.randomWeather(), the two Math.random() results being given.
randomWeather(material, cloudCoverage, turbidity) ==
    [setCloudCoverage(material, cloudCoverage) EXCEPT !.turbidity = turbidity]

\* The speed demo.update() passes to animate.
DemoSpeed == (2 * Scale) \div 10

\* The hours of the keys 1 to 4.
Hours == { Whole(0), Whole(6), Whole(12), Whole(18) }

\* Results of Math.random() and 1 + Math.random() * 9.
Weathers == { <<Scale \div 4, 3 * Scale>>, <<(3 * Scale) \div 4, 8 * Scale>> }

WriteOrder(call) ==
    CASE call.name = "animate" -> AnimateOrder
      [] call.name = "setTimeOfDay" -> SunOrder
      [] call.name = "randomWeather" -> WeatherOrder

\* The uniforms as the call leaves them when it returns.
Target(call, material) ==
    CASE call.name = "animate" -> animate(material, call.time, call.speed)
      [] call.name = "setTimeOfDay" -> setTimeOfDay(material, call.hour)
      [] call.name = "randomWeather" ->
             randomWeather(material, call.cloudCoverage, call.turbidity)

\* Variant: rendering runs concurrently with demo.update().
RenderReady_Concurrent(f) == f.pc \in {"updating", "updated"}

\* renderer.render(scene, camera) is the statement after demo.update().
RenderReady(f) == f.pc = "updated"

\* initSkyboxDemo(scene): the sky of the demo, no frame or handler running.
InitFrame ==
    /\ uniforms = setupSky(Configs[2])
    /\ prev = setupSky(Configs[2])
    /\ op = [name |-> "setupSky", options |-> Configs[2]]
    /\ nops = 0
    /\ snapshot = NoSnapshot
    /\ InitApp
    /\ frame = [pc |-> "idle", animating |-> FALSE, call |-> [name |-> "none"],
                target |-> setupSky(Configs[2]), done |-> 0,
                committed |-> setupSky(Configs[2]), rendered |-> FALSE,
                seen |-> setupSky(Configs[2]), seenCommitted |-> setupSky(Configs[2])]

\* A call of the demo starts; pc tells who made it.
BeginCall(pc, call) ==
    /\ nops < MaxFrameCalls
    /\ frame' = [frame EXCEPT !.pc = pc, !.call = call,
                              !.target = Target(call, uniforms), !.done = 0]
    /\ UNCHANGED <<uniforms, prev, op, nops, snapshot>>
    /\ UNCHANGED appVars

\* keydown ' ': demo.toggleAnimation()
ToggleAnimation ==
    /\ frame.pc = "idle"
    /\ frame' = [frame EXCEPT !.animating = ~frame.animating]
    /\ UNCHANGED <<uniforms, prev, op, nops, snapshot>>
    /\ UNCHANGED appVars

\* keydown '1' .. '4': demo.setTimeOfDay(hour)
SetTimeOfDay ==
    /\ frame.pc = "idle"
    /\ \E hour \in Hours :
           BeginCall("handling", [name |-> "setTimeOfDay", hour |-> hour])

\* keydown 'w': demo.randomWeather()
RandomWeather ==
    /\ frame.pc = "idle"
    /\ \E w \in Weathers :
           BeginCall("handling", [name |-> "randomWeather", cloudCoverage |-> w[1],
                                  turbidity |-> w[2]])

\* The animation frame callback starts and calls demo.update().
FrameBegin ==
    /\ frame.pc = "idle"
    /\ IF frame.animating
       THEN \E t \in Times :
                BeginCall("updating", [name |-> "animate", time |-> t,
                                       speed |-> DemoSpeed])
       ELSE /\ frame' = [frame EXCEPT !.pc = "updated"]
            /\ UNCHANGED <<uniforms, prev, op, nops, snapshot>>
            /\ UNCHANGED appVars

\* The running call makes its next assignment to a uniform.
Write ==
    /\ frame.pc \in {"updating", "handling"}
    /\ frame.done < Len(WriteOrder(frame.call))
    /\ LET key == WriteOrder(frame.call)[frame.done + 1]
       IN  uniforms' = [uniforms EXCEPT ![key] = frame.target[key]]
    /\ frame' = [frame EXCEPT !.done = frame.done + 1]
    /\ UNCHANGED <<prev, op, nops, snapshot>>
    /\ UNCHANGED appVars

\* The running call returns: to demo.update() or to the event loop.
Return ==
    /\ frame.pc \in {"updating", "handling"}
    /\ frame.done = Len(WriteOrder(frame.call))
    /\ frame' = [frame EXCEPT !.pc = IF frame.pc = "updating" THEN "updated" ELSE "idle",
                              !.committed = uniforms]
    /\ prev' = frame.committed
    /\ op' = frame.call
    /\ nops' = nops + 1
    /\ UNCHANGED <<uniforms, snapshot>>
    /\ UNCHANGED appVars

\* renderer.render(scene, camera): the evaluator reads the uniforms.
Render ==
    /\ RenderReady(frame)
    /\ frame' = [frame EXCEPT !.pc = IF frame.pc = "updated" THEN "rendered" ELSE frame.pc,
                              !.rendered = TRUE, !.seen = uniforms,
                              !.seenCommitted = frame.committed]
    /\ UNCHANGED <<uniforms, prev, op, nops, snapshot>>
    /\ UNCHANGED appVars

\* The animation frame callback returns to the event loop.
FrameEnd ==
    /\ frame.pc = "rendered"
    /\ frame' = [frame EXCEPT !.pc = "idle"]
    /\ UNCHANGED <<uniforms, prev, op, nops, snapshot>>
    /\ UNCHANGED appVars

FrameNext ==
    \/ ToggleAnimation
    \/ SetTimeOfDay
    \/ RandomWeather
    \/ FrameBegin
    \/ Write
    \/ Return
    \/ Render
    \/ FrameEnd

FrameSpec == InitFrame /\ [][FrameNext]_vars

-----------------------------------------------------------------------------
(* The shader module's updateSunFromSpherical, called on controller.material *)

\* updateSunFromSpherical(material, radius, ...): the radius.
Radii == { -(2 * Scale), 0, Scale \div 2, Scale, 3 * Scale }

\* updateSunFromSpherical(material, radius, phi, theta), in radians.
SphericalAngles == { <<PI \div 3, PI>>, <<PI \div 2, 0>>, <<Scale, 2 * Scale>> }

UpdateSunFromSpherical ==
    \E radius \in Radii, a \in SphericalAngles :
        nops < MaxSphericalOps /\
        Step(updateSunFromSpherical(uniforms, radius, a[1], a[2]),
             [name |-> "updateSunFromSpherical", radius |-> radius, phi |-> a[1],
              theta |-> a[2]])

SphericalNext ==
    \/ nops < MaxSphericalOps /\ Next
    \/ UpdateSunFromSpherical

SphericalSpec == Init /\ [][SphericalNext]_vars

-----------------------------------------------------------------------------
(* The cube spawner: physicsCubeSpawner.js and createCubeSpawner *)

MAX_CUBES == 50

\* The n-th mesh created by spawnPhysicsCube, and the n-th body.  Scene
\* objects and bodies are told apart by identity only: position, colour and
\* material take no part in what is added and removed.
Mesh(n) == "mesh" \o ToString(n)
Body(n) == "body" \o ToString(n)

\* spawnPhysicsCube(scene, world, position, color), creating the n-th cube:
\* scene.add(mesh), world.addBody(physicsBody), mesh.userData.physicsBody.
spawnPhysicsCube(sc, w, n) ==
    [scene |-> sc \cup {Mesh(n)},
     world |-> w \cup {Body(n)},
     cubeData |-> [mesh |-> [uuid |-> Mesh(n), userData |-> [physicsBody |-> Body(n)]],
                   physicsBody |-> Body(n)]]

\* removeCube without world.removeBody(body).
removeCube_KeepBody(mesh, sc, w) ==
    [scene |-> sc \ {mesh.uuid}, world |-> w]

\* removeCube(mesh, scene, world); the body is always set on a spawned mesh.
removeCube(mesh, sc, w) ==
    [scene |-> sc \ {mesh.uuid}, world |-> w \ {mesh.userData.physicsBody}]

\* forEach(cubeData => removeCube(cubeData.mesh, scene, physicsWorld)): each
\* call takes its own mesh and body away, so the calls together take away
\* what each of them takes away.
removeAll(cubes, sc, w) ==
    [scene |-> sc \ UNION {sc \ removeCube(cubes[i].mesh, sc, w).scene : i \in DOMAIN cubes},
     world |-> w \ UNION {w \ removeCube(cubes[i].mesh, sc, w).world : i \in DOMAIN cubes}]

\* spawn without the cleanup of old cubes.
spawn_NoCleanup(cubes, sc, w, n) ==
    LET made == spawnPhysicsCube(sc, w, n)
    IN [spawnedCubes |-> Append(cubes, made.cubeData), scene |-> made.scene, world |-> made.world]

\* spawner.spawn(color), creating the n-th cube.
spawn(cubes, sc, w, n) ==
    LET made == spawnPhysicsCube(sc, w, n)
        pushed == Append(cubes, made.cubeData)
    IN IF Len(pushed) > MAX_CUBES
       THEN LET oldCube == Head(pushed)
                removed == removeCube(oldCube.mesh, made.scene, made.world)
            IN [spawnedCubes |-> Tail(pushed), scene |-> removed.scene, world |-> removed.world]
       ELSE [spawnedCubes |-> pushed, scene |-> made.scene, world |-> made.world]

\* spawner.clearAll()
clearAll(cubes, sc, w) ==
    LET removed == removeAll(cubes, sc, w)
    IN [spawnedCubes |-> <<>>, scene |-> removed.scene, world |-> removed.world]

\* The state after a spawner operation.
Spawner(after) ==
    /\ spawnedCubes' = after.spawnedCubes
    /\ scene' = after.scene
    /\ world' = after.world
    /\ UNCHANGED <<uniforms, prev, op, nops, snapshot, frame>>
    /\ UNCHANGED <<pauseState, pauseButton, loop, fragment>>

\* The Spawn button, or a double click.
Spawn ==
    /\ heap < MaxSpawns
    /\ heap' = heap + 1
    /\ Spawner(spawn(spawnedCubes, scene, world, heap + 1))

\* The Clear All button, or the C key.
ClearAll ==
    /\ heap' = heap
    /\ Spawner(clearAll(spawnedCubes, scene, world))

SpawnerNext ==
    \/ Spawn
    \/ ClearAll

SpawnerSpec == InitMain /\ [][SpawnerNext]_vars

-----------------------------------------------------------------------------
(* Pause: the animation loop, the Pause button and the keyboard shortcuts *)

\* The 'p' shortcut with the label taken from the state before the flip.
shortcutP_StaleLabel(ps) ==
    [pauseState |-> [isPaused |-> ~ps.isPaused],
     pauseButton |-> [textContent |-> IF ps.isPaused THEN "Resume" ELSE "Pause"]]

\* shortcuts['p'] of setupKeyboardShortcuts.
shortcutP(ps) ==
    LET flipped == [isPaused |-> ~ps.isPaused]
    IN [pauseState |-> flipped,
        pauseButton |-> [textContent |-> IF flipped.isPaused THEN "Resume" ELSE "Pause"]]

\* The click handler of the Pause button in setupUI.
pauseClick(ps) ==
    LET flipped == [isPaused |-> ~ps.isPaused]
    IN [pauseState |-> flipped,
        pauseButton |-> [textContent |-> IF flipped.isPaused THEN "Resume" ELSE "Pause"]]

\* event.key.toLowerCase(), on the keys of the model.
toLowerCase(key) == IF key = "P" THEN "p" ELSE IF key = "C" THEN "c" ELSE key

\* Keys pressed, and the elements that may have the focus.
Keys == {"p", "P", "c", "C", "r", "x"}
TagNames == {"BODY", "BUTTON", "INPUT", "TEXTAREA"}

\* One frame of animate() that the frame limiter lets through: physics is
\* stepped unless paused, the cube is turned, the scene is rendered.
animateFrame(ps) ==
    [ran |-> TRUE, skipped |-> FALSE, paused |-> ps.isPaused,
     stepped |-> ~ps.isPaused, rotated |-> TRUE, rendered |-> TRUE]

\* A frame the limiter skips: animate() returns at once.
SkippedFrame ==
    [ran |-> TRUE, skipped |-> TRUE, paused |-> pauseState.isPaused,
     stepped |-> FALSE, rotated |-> FALSE, rendered |-> FALSE]

Count(b) == IF b THEN 1 ELSE 0

\* The requestAnimationFrame callback.  Without an fpsManager every frame
\* is let through; with one, shouldRenderFrame() decides.
LoopFrame ==
    \E shouldRenderFrame \in BOOLEAN :
        /\ loop.frames < MaxLoopFrames
        /\ LET did == IF shouldRenderFrame THEN animateFrame(pauseState) ELSE SkippedFrame
           IN loop' = [frames |-> loop.frames + 1,
                       physicsSteps |-> loop.physicsSteps + Count(did.stepped),
                       rotations |-> loop.rotations + Count(did.rotated),
                       renders |-> loop.renders + Count(did.rendered),
                       last |-> did]
        /\ UNCHANGED <<uniforms, prev, op, nops, snapshot, frame>>
        /\ UNCHANGED <<spawnedCubes, scene, world, heap, pauseState, pauseButton, fragment>>

\* The keydown listener, for one key and one event target.
KeyDownOf(key, tagName) ==
    /\ IF tagName = "INPUT" \/ tagName = "TEXTAREA"
       THEN UNCHANGED <<pauseState, pauseButton, spawnedCubes, scene, world>>
       ELSE CASE toLowerCase(key) = "p" ->
                   /\ pauseState' = shortcutP(pauseState).pauseState
                   /\ pauseButton' = shortcutP(pauseState).pauseButton
                   /\ UNCHANGED <<spawnedCubes, scene, world>>
              [] toLowerCase(key) = "c" ->
                   /\ spawnedCubes' = clearAll(spawnedCubes, scene, world).spawnedCubes
                   /\ scene' = clearAll(spawnedCubes, scene, world).scene
                   /\ world' = clearAll(spawnedCubes, scene, world).world
                   /\ UNCHANGED <<pauseState, pauseButton>>
              [] OTHER -> UNCHANGED <<pauseState, pauseButton, spawnedCubes, scene, world>>
    /\ UNCHANGED <<uniforms, prev, op, nops, snapshot, frame>>
    /\ UNCHANGED <<heap, loop, fragment>>

KeyDown == \E key \in Keys, tagName \in TagNames : KeyDownOf(key, tagName)

\* A click on the Pause button.
PauseClick ==
    /\ pauseState' = pauseClick(pauseState).pauseState
    /\ pauseButton' = pauseClick(pauseState).pauseButton
    /\ UNCHANGED <<uniforms, prev, op, nops, snapshot, frame>>
    /\ UNCHANGED <<spawnedCubes, scene, world, heap, loop, fragment>>

PauseNext ==
    \/ LoopFrame
    \/ KeyDown
    \/ PauseClick

PauseSpec == InitMain /\ [][PauseNext]_vars

-----------------------------------------------------------------------------
(* glossyShader.frag: the fragment shader of the glossy material *)

\* const float EPSILON = 0.00001 lies below the resolution of the fixed-point
\* numbers; it is the smallest positive one here, which keeps what the floor
\* is for: max(divisor, EPSILON) is positive whatever the divisor.
EPSILON == 1

fresnelSchlick(cosTheta, F0, fresnelPower) ==
    plus(F0, scaled(minus(vec3(Scale), F0), pow(Scale - cosTheta, fresnelPower)))

\* The divisor of distributionGGX: max(denom, EPSILON).
distributionGGX_divisor(N, H, roughness) ==
    LET a == Mul(roughness, roughness)
        a2 == Mul(a, a)
        NdotH == Max(dot(N, H), 0)
        NdotH2 == Mul(NdotH, NdotH)
        denom == Mul(NdotH2, a2 - Scale) + Scale
    IN  Max(Mul(Mul(PI, denom), denom), EPSILON)

distributionGGX(N, H, roughness) ==
    LET a == Mul(roughness, roughness)
        num == Mul(a, a)
    IN  Div(num, distributionGGX_divisor(N, H, roughness))

\* The divisor of geometrySchlickGGX: max(denom, EPSILON).
geometrySchlickGGX_divisor(NdotV, roughness) ==
    LET r == roughness + Scale
        k == Div(Mul(r, r), 8 * Scale)
        denom == Mul(NdotV, Scale - k) + k
    IN  Max(denom, EPSILON)

geometrySchlickGGX(NdotV, roughness) ==
    Div(NdotV, geometrySchlickGGX_divisor(NdotV, roughness))

geometrySmith(N, V, L, roughness) ==
    LET NdotV == Max(dot(N, V), 0)
        NdotL == Max(dot(N, L), 0)
        ggx2 == geometrySchlickGGX(NdotV, roughness)
        ggx1 == geometrySchlickGGX(NdotL, roughness)
    IN  Mul(ggx1, ggx2)

\* The divisor of the attenuation: distance * distance, as it is.
attenuation_divisor(distance) == Mul(distance, distance)

\* The divisor of the specular term: max(denominator, EPSILON).
specular_divisor(N, V, L) ==
    Max(Mul(Mul(4 * Scale, Max(dot(N, V), 0)), Max(dot(N, L), 0)), EPSILON)

\* The fog of main(), applied to the shaded colour.
fog(color, u) ==
    LET fogDistance == Max(u.vFogDepth - u.fogNear, 0)
        fogRange == u.fogFar - u.fogNear
        normalizedDistance == Div(fogDistance, fogRange)
        distanceFog == Scale - exp(-Mul(Mul(u.fogDensity, normalizedDistance), normalizedDistance))
        heightFactor == exp(-Mul(Max(u.vWorldY, 0), u.heightFalloff))
        fogFactor == clamp(Mul(distanceFog, Scale \div 2 + heightFactor \div 2), 0, Scale)
        shifted == plus(scaled(u.fogColor, ((9 * Scale) \div 10)), Vector3(50, 80, 120))
        atmosphericColor == mix3(u.fogColor, shifted, Mul(normalizedDistance, ((3 * Scale) \div 10)))
    IN  mix3(color, atmosphericColor, fogFactor)

\* main() where every vector it normalizes has a length and every divisor
\* is non-zero: the colour written to gl_FragColor.
shade(u) ==
    LET N == glNormalize(u.vWorldNormal)
        V == glNormalize(minus(u.customCameraPosition, u.vWorldPosition))
        F0 == mix3(vec3(40), u.baseColor, u.metalness)
        L == glNormalize(minus(u.pointLightPosition, u.vWorldPosition))
        H == glNormalize(plus(V, L))
        distance == length(minus(u.pointLightPosition, u.vWorldPosition))
        attenuation == Div(u.pointLightIntensity, attenuation_divisor(distance))
        radiance == scaled(u.pointLightColor, attenuation)
        NDF == distributionGGX(N, H, u.roughness)
        G == geometrySmith(N, V, L, u.roughness)
        F == fresnelSchlick(Max(dot(H, V), 0), F0, u.fresnelPower)
        numerator == scaled(F, Mul(NDF, G))
        divisor == specular_divisor(N, V, L)
        specular == Map3(LAMBDA c : Div(c, divisor), numerator)
        kS == F
        kD == scaled(minus(vec3(Scale), kS), Scale - u.metalness)
        diffuse == Map3(LAMBDA c : Div(c, PI), times(kD, u.baseColor))
        NdotL == Max(dot(N, L), 0)
        lit == scaled(times(plus(diffuse, scaled(specular, u.specularIntensity)), radiance), NdotL)
        ambient == times(scaled(u.ambientColor, u.ambientIntensity), u.baseColor)
        fresnel == pow(Scale - Max(dot(N, V), 0), u.fresnelPower)
        fresnelColor == scaled(scaled(F0, fresnel), Scale \div 2)
        color == plus(lit, plus(ambient, fresnelColor))
        mapped == Map3(LAMBDA c : Div(c, c + Scale), color)
        gamma == Map3(LAMBDA c : pow(c, Div(Scale, 2200)), mapped)
    IN  IF u.enableFog THEN fog(gamma, u) ELSE gamma

\* The vectors main() normalizes.
normalized(u) ==
    LET toCamera == minus(u.customCameraPosition, u.vWorldPosition)
        toLight == minus(u.pointLightPosition, u.vWorldPosition)
    IN  << u.vWorldNormal, toCamera, toLight >>
        \o (IF length(toCamera) # 0 /\ length(toLight) # 0
            THEN << plus(glNormalize(toCamera), glNormalize(toLight)) >>
            ELSE << >>)

\* The divisions of the lighting computation whose divisor does not depend
\* on the result of an undefined operation, in the order of main().
divisions(u) ==
    LET toLight == minus(u.pointLightPosition, u.vWorldPosition)
        vectors == normalized(u)
        unit == \A i \in DOMAIN vectors : length(vectors[i]) # 0
        N == glNormalize(u.vWorldNormal)
        V == glNormalize(minus(u.customCameraPosition, u.vWorldPosition))
        L == glNormalize(toLight)
        H == glNormalize(plus(V, L))
    IN  << [site |-> "attenuation", divisor |-> attenuation_divisor(length(toLight))] >>
        \o (IF unit
            THEN << [site |-> "distributionGGX",
                     divisor |-> distributionGGX_divisor(N, H, u.roughness)],
                    [site |-> "geometrySchlickGGX(NdotV)",
                     divisor |-> geometrySchlickGGX_divisor(Max(dot(N, V), 0), u.roughness)],
                    [site |-> "geometrySchlickGGX(NdotL)",
                     divisor |-> geometrySchlickGGX_divisor(Max(dot(N, L), 0), u.roughness)],
                    [site |-> "specular", divisor |-> specular_divisor(N, V, L)] >>
            ELSE << >>)

\* Whether main() is defined on its inputs: no zero vector is normalized
\* and no division is by zero.
defined(u) ==
    /\ \A i \in DOMAIN normalized(u) : length(normalized(u)[i]) # 0
    /\ \A i \in DOMAIN divisions(u) : divisions(u)[i].divisor # 0

\* Uniforms as createGlossyMaterial and spawnPhysicsCube set them, with the
\* fog of main.js; lights and camera as updateGlossyMaterialUniforms copies
\* them; varyings of fragments on the faces of a unit cube.
GlossyInputs ==
    [baseColor : {Vector3(0, 831, 1000)},
     roughness : {150, 1000},
     metalness : {0, Scale},
     specularIntensity : {((3 * Scale) \div 2)},
     fresnelPower : {3 * Scale},
     ambientColor : {vec3(Scale)},
     ambientIntensity : {Scale \div 2},
     pointLightPosition : {Vector3(5000, 5000, 5000), Vector3(0, 2000, 0),
                           Vector3(0, 500, 0), Vector3(500, 0, 0)},
     pointLightColor : {vec3(Scale)},
     pointLightIntensity : {Scale, 2 * Scale},
     customCameraPosition : {Vector3(0, 2000, 5000), Vector3(3000, 0, 0), Vector3(0, 500, 0)},
     enableFog : BOOLEAN,
     fogColor : {Vector3(529, 808, 922)},
     fogNear : {Scale},
     fogFar : {50 * Scale},
     fogDensity : {((5 * Scale) \div 2)},
     heightFalloff : {Scale \div 10},
     vWorldPosition : {Vector3(0, 500, 0), Vector3(500, 0, 0)},
     vWorldNormal : {Vector3(0, Scale, 0), Vector3(Scale, 0, 0)},
     vFogDepth : {5 * Scale},
     vWorldY : {Scale \div 2}]

\* What gl_FragColor may hold where main() is undefined.
UndefinedColors == {vec3(0), vec3(Scale)}

\* One fragment is shaded: main() runs and writes gl_FragColor.
ShadeGlossy ==
    \E u \in GlossyInputs :
        /\ ~fragment.evaluated
        /\ \E color \in (IF defined(u) THEN {shade(u)} ELSE UndefinedColors) :
               fragment' = [evaluated |-> TRUE, shader |-> "glossy", inputs |-> u,
                            divisions |-> divisions(u), defined |-> defined(u),
                            gl_FragColor |-> color]
        /\ UNCHANGED <<uniforms, prev, op, nops, snapshot, frame>>
        /\ UNCHANGED <<spawnedCubes, scene, world, heap, pauseState, pauseButton, loop>>

\* The fragment's colour goes to the framebuffer; the next invocation of
\* the shader starts from nothing.
Output ==
    /\ fragment.evaluated
    /\ fragment' = NoFragment
    /\ UNCHANGED <<uniforms, prev, op, nops, snapshot, frame>>
    /\ UNCHANGED <<spawnedCubes, scene, world, heap, pauseState, pauseButton, loop>>

GlossyNext ==
    \/ ShadeGlossy
    \/ Output

GlossySpec == InitMain /\ [][GlossyNext]_vars

-----------------------------------------------------------------------------
(* skyboxShader.frag: the fragment shader of the sky *)

HORIZON_FADE == 20

WAVELENGTHS == Vector3(680, 550, 440)

\* pow(WAVELENGTHS, vec3(-4.0))
wavelengthFactors == Map3(LAMBDA w : pow(w, -4 * Scale), WAVELENGTHS)

rayleighPhase(cosTheta) == Mul(750, Scale + Mul(cosTheta, cosTheta))

miePhase(cosTheta, g) ==
    LET g2 == Mul(g, g)
        nom == Scale - g2
        denom == pow(Scale + g2 - Mul(2 * g, cosTheta), (3 * Scale) \div 2)
    IN  Div(nom, Mul(Mul(4 * Scale, PI), denom))

\* atmosphericScattering after horizonFactor has been computed.
scatteringFaded(horizonFactor, rayDir, sunDir, sunInt, u) ==
    IF horizonFactor <= 0
    THEN vec3(0)
    ELSE LET cosTheta == dot(rayDir, sunDir)
             rayHeight == rayDir.y
             opticalDepthR == Mul(exp(-(4 * rayHeight)), u.rayleighCoeff)
             opticalDepthM == Mul(exp(-(2 * rayHeight)), u.mieCoeff)
             phaseR == rayleighPhase(cosTheta)
             phaseM == miePhase(cosTheta, u.mieDirectionalG)
             rayleigh == scaled(scaled(wavelengthFactors, phaseR), opticalDepthR)
             mie == vec3(Mul(phaseM, opticalDepthM))
             scattering == scaled(plus(rayleigh, mie), sunInt)
         IN  scaled(scattering, horizonFactor)

\* atmosphericScattering with the fade starting 25 times deeper.
atmosphericScattering_DeepFade(rayDir, sunDir, sunInt, u) ==
    scatteringFaded(smoothstep(-(25 * HORIZON_FADE), HORIZON_FADE, rayDir.y),
                    rayDir, sunDir, sunInt, u)

\* atmosphericScattering(rayDir, sunDir, sunInt), reading the uniforms u.
atmosphericScattering(rayDir, sunDir, sunInt, u) ==
    scatteringFaded(smoothstep(-HORIZON_FADE, HORIZON_FADE, rayDir.y),
                    rayDir, sunDir, sunInt, u)

skyGradient(rayDir, sunDir) ==
    LET sunHeight == sunDir.y
        rayHeight == rayDir.y
        day == smoothstep(-100, 300, sunHeight)
        zenithColor == mix3(Vector3(50, 50, 150), Vector3(350, 500, 850), day)
        horizonDay == mix3(Vector3(100, 100, 200), Vector3(850, 750, 600), day)
        sunsetFactor == pow(Scale - Abs(sunHeight), 2 * Scale)
        horizonColor == mix3(horizonDay, Vector3(1000, 500, 300), Mul(sunsetFactor, 500))
        gradientFactor == pow(Max(0, rayHeight), 400)
        skyColor == mix3(horizonColor, zenithColor, gradientFactor)
        sunDot == dot(rayDir, sunDir)
        sunGlow == pow(Max(0, sunDot), 32 * Scale)
    IN  plus(skyColor, scaled(scaled(Vector3(1000, 900, 700), sunGlow), Max(0, sunHeight)))

\* hash with the number of evaluations made so far folded into the seed.
hash_Seeded(p) ==
    Let(p, LAMBDA v :
    Let(Vector3(fractMul(v.x + Whole(fragment.count), 443897),
                fractMul(v.y, 441423), fractMul(v.z, 437195)), LAMBDA q :
    Let(Mul(q.x, q.y + 19190) + Mul(q.y, q.z + 19190) + Mul(q.z, q.x + 19190), LAMBDA d :
        fractMul(q.x + d + q.y + d, q.z + d))))

\* hash(p): fract(p * vec3(443.897, 441.423, 437.195)), p += dot(p, p.yzx + 19.19),
\* fract((p.x + p.y) * p.z).
hash(p) ==
    Let(p, LAMBDA v :
    Let(Vector3(fractMul(v.x, 443897), fractMul(v.y, 441423), fractMul(v.z, 437195)), LAMBDA q :
    Let(Mul(q.x, q.y + 19190) + Mul(q.y, q.z + 19190) + Mul(q.z, q.x + 19190), LAMBDA d :
        fractMul(q.x + d + q.y + d, q.z + d))))

\* The sum of F over -1, 0, 1: one level of the loops over neighbouring cells.
Sum3(F(_)) == plus(plus(F(-1), F(0)), F(1))

\* The body of the innermost loop of renderStars: the star of one cell.
starOfCell(rayDir, layer, layerScale, cell, u) ==
    Let(cell, LAMBDA neighbor : Let(hash(neighbor), LAMBDA h :
        LET threshold == 950 + layer * 15
            starPos == plus(neighbor, Vector3(hash(Map3(LAMBDA c : mul(c, 1100), neighbor)),
                                              hash(Map3(LAMBDA c : mul(c, 1300), neighbor)),
                                              hash(Map3(LAMBDA c : mul(c, 1700), neighbor))))
            \* normalize(starPos / layerScale - rayDir): the direction of
            \* starPos - rayDir * layerScale, layerScale being positive; taken in
            \* cell units, where the star and the ray stay apart at this resolution.
            toStar == glNormalize(minus(starPos, Map3(LAMBDA c : mul(layerScale, c), rayDir)))
            dist == length(toStar)
            size == Div(2 + Mul(hash(Map3(LAMBDA c : 2 * c, neighbor)), 3), Whole(1 + layer))
            twinkle == Mul(Sin(Mul(u.time, 2 * Scale + 3 * hash(Map3(LAMBDA c : 3 * c, neighbor)))
                               + Mul(h, 2 * PI)), 300) + 700
            brightness == 500 + Mul(hash(Map3(LAMBDA c : 4 * c, neighbor)), 500)
            star == Mul(Mul(Scale - smoothstep(0, size, dist), twinkle), brightness)
            colorVar == hash(Map3(LAMBDA c : 5 * c, neighbor))
            starColor == IF colorVar > 700
                         THEN mix3(vec3(Scale), Vector3(800, 900, 1000), 3 * (colorVar - 700))
                         ELSE IF colorVar < 300
                         THEN mix3(vec3(Scale), Vector3(1000, 900, 800), 3 * (300 - colorVar))
                         ELSE vec3(Scale)
        IN  IF h > threshold THEN scaled(starColor, star) ELSE vec3(0)))

\* One layer of renderStars.
starLayer(rayDir, layer, u) ==
    LET layerScale == Whole(500 + layer * 300)
        p == Map3(LAMBDA c : mul(layerScale, c), rayDir)
    IN  Let(Map3(floor, p), LAMBDA cellId :
        Sum3(LAMBDA x : Sum3(LAMBDA y : Sum3(LAMBDA z :
            starOfCell(rayDir, layer, layerScale,
                       plus(cellId, Vector3(Whole(x), Whole(y), Whole(z))), u)))))

renderStars(rayDir, intensity, u) ==
    LET totalStars == plus(plus(starLayer(rayDir, 0, u), starLayer(rayDir, 1, u)),
                           starLayer(rayDir, 2, u))
        visibilityFactor == smoothstep(-100, 300, rayDir.y)
    IN  scaled(totalStars, Mul(visibilityFactor, intensity))

\* noise2D(p), p a vec2.
noise2D(p) ==
    Let(p, LAMBDA v :
        LET i == [x |-> floor(v.x), y |-> floor(v.y)]
            f == [x |-> Mul(Mul(fract(v.x), fract(v.x)), 3 * Scale - 2 * fract(v.x)),
                  y |-> Mul(Mul(fract(v.y), fract(v.y)), 3 * Scale - 2 * fract(v.y))]
            a == hash(Vector3(i.x, i.y, 0))
            b == hash(Vector3(i.x + Scale, i.y, 0))
            c == hash(Vector3(i.x, i.y + Scale, 0))
            d == hash(Vector3(i.x + Scale, i.y + Scale, 0))
        IN  mix(mix(a, b, f.x), mix(c, d, f.x), f.y))

\* The loop of fbm from octave i on.
RECURSIVE fbmFrom(_, _, _, _, _)
fbmFrom(p, octaves, i, amplitude, frequency) ==
    IF i >= 8 \/ i >= octaves
    THEN 0
    ELSE Mul(amplitude, noise2D([x |-> Mul(p.x, frequency), y |-> Mul(p.y, frequency)]))
         + Let(Mul(amplitude, 500), LAMBDA halved :
               fbmFrom(p, octaves, i + 1, halved, 2 * frequency))

fbm(p, octaves) == Let(p, LAMBDA v : fbmFrom(v, octaves, 0, 500, Scale))

renderClouds(rayDir, coverage, u) ==
    IF rayDir.y < 100
    THEN 0
    ELSE LET cloudCoords == [x |-> Div(rayDir.x, Max(100, rayDir.y)) + Mul(u.time, 20),
                             y |-> Div(rayDir.z, Max(100, rayDir.y)) + Mul(u.time, 20)]
             octaves == IF u.qualityLevel = 0 THEN 3 ELSE IF u.qualityLevel = 1 THEN 4 ELSE 5
             base == fbm([x |-> Mul(cloudCoords.x, 500), y |-> Mul(cloudCoords.y, 500)], octaves)
             detailNoise == Mul(fbm([x |-> 2 * cloudCoords.x + Mul(u.time, 30),
                                     y |-> 2 * cloudCoords.y + Mul(u.time, 30)], 3), 300)
             threshold == Scale - coverage
         IN  Let(Mul(base + detailNoise, 500) + 500, LAMBDA cloudNoise :
                 LET cloud == smoothstep(threshold, threshold + 100, cloudNoise)
                     density == smoothstep(threshold - 100, threshold + 200, cloudNoise)
                 IN  Mul(Mul(cloud, density), smoothstep(0, 300, rayDir.y)))

renderSunDisc(rayDir, sunDir, intensity) ==
    LET sunDot == dot(rayDir, sunDir)
        sunDisc == smoothstep(RDiv(9998, 10), RDiv(9999, 10), sunDot)
        sunColor == scaled(Vector3(1000, 980, 950), 20 * intensity)
        corona == pow(Max(0, sunDot), 200 * Scale)
        coronaColor == scaled(Vector3(1000, 950, 850), 3 * intensity)
        halo == pow(Max(0, sunDot), 12 * Scale)
        haloColor == scaled(Vector3(1000, 900, 700), Mul(intensity, 800))
        limbDarkening == Scale - Mul(smoothstep(RDiv(9998, 10), RDiv(99995, 100), sunDot), 300)
        sun == plus(plus(scaled(scaled(sunColor, sunDisc), limbDarkening),
                         scaled(coronaColor, corona)),
                    scaled(haloColor, halo))
        sunVisibility == smoothstep(-100, 0, sunDir.y)
    IN  scaled(sun, sunVisibility)

renderMoon(rayDir, moonDir, sunDir, intensity) ==
    LET moonDot == dot(rayDir, moonDir)
        moonDisc == smoothstep(RDiv(9996, 10), RDiv(9998, 10), moonDot)
        sunMoonDot == dot(moonDir, sunDir)
        phase == Mul(sunMoonDot + Scale, 500)
        moonBrightness == Mul(phase, 800) + 200
        moonColor == scaled(Vector3(950, 950, 900), 2 * Mul(moonBrightness, intensity))
        moonGlow == pow(Max(0, moonDot), 100 * Scale)
        glowColor == scaled(Vector3(900, 900, 1000), Mul(intensity, 500))
        moon == plus(scaled(moonColor, moonDisc), scaled(glowColor, moonGlow))
        moonVisibility == smoothstep(-100, 0, moonDir.y)
    IN  scaled(moon, moonVisibility)

\* The 4x4 Bayer matrix of dither.
bayerMatrix == << 0, 8, 2, 10, 12, 4, 14, 6, 3, 11, 1, 9, 15, 7, 13, 5 >>

\* dither(gl_FragCoord.xy), for the fragment of the pixel in column x, row y.
dither(fragCoord) ==
    LET index == (fragCoord.x % 4) + (fragCoord.y % 4) * 4
    IN  RDiv(RDiv(Whole(bayerMatrix[index + 1]), 16) - 500, 255)

\* acesToneMapping on one channel; a quotient of 1 or more is clamped to 1
\* and is not formed.
aces(color) ==
    LET num == mul(color, mul(color, 2510) + 30)
        den == mul(color, mul(color, 2430) + 590) + 140
    IN  clamp(IF num >= den THEN Scale ELSE Div(num, den), 0, Scale)

acesToneMapping(color) == Map3(aces, color)

\* min(1.0, length(v)): a component of 1 or more makes the length 1 or more.
unitOrLess(v) ==
    IF Abs(v.x) >= Scale \/ Abs(v.y) >= Scale \/ Abs(v.z) >= Scale
    THEN Scale
    ELSE Min(Scale, length(v))

\* The stars main() adds: none unless enabled and the sun is low.
starsOf(u, rayDir, sunDir) ==
    IF u.enableStars /\ sunDir.y < 100
    THEN renderStars(rayDir, Mul(u.starIntensity, smoothstep(100, -100, sunDir.y)), u)
    ELSE vec3(0)

\* main(): the stars it adds and the colour written to gl_FragColor, from the
\* uniforms u, the varying vWorldDirection and the fragment's pixel.
skyMain(u, vWorldDirection, fragCoord) ==
    Let(glNormalize(vWorldDirection), LAMBDA rayDir :
    Let(glNormalize(u.sunDirection), LAMBDA sunDir :
    Let(glNormalize(u.moonDirection), LAMBDA moonDir :
    LET gradient == skyGradient(rayDir, sunDir)
        scattered == atmosphericScattering(rayDir, sunDir, u.sunIntensity, u)
        base == IF u.qualityLevel >= 1
                THEN Let(scattered, LAMBDA finalColor :
                         mix3(gradient, finalColor, unitOrLess(finalColor)))
                ELSE gradient
        sun == IF u.enableSunDisc
               THEN renderSunDisc(rayDir, sunDir, u.sunIntensity)
               ELSE vec3(0)
        moon == IF u.enableMoon /\ u.moonIntensity > 10
                THEN renderMoon(rayDir, moonDir, sunDir, u.moonIntensity)
                ELSE vec3(0)
        cloudAlpha == renderClouds(rayDir, u.cloudCoverage, u)
        cloudSunColor == vec3(Max(300, sunDir.y + 500))
        cloudMoonColor == scaled(Vector3(700, 750, 850), Mul(u.moonIntensity, Max(0, moonDir.y)))
        cloudColor == plus(cloudSunColor, cloudMoonColor)
        exposure == mix(500, 1500, smoothstep(-200, 500, sunDir.y))
    IN  Let(starsOf(u, rayDir, sunDir), LAMBDA stars :
            LET celestial == plus(plus(plus(base, sun), stars), moon)
                clouded == IF u.enableClouds /\ u.cloudCoverage > 10
                           THEN mix3(celestial, cloudColor, Mul(cloudAlpha, 700))
                           ELSE celestial
                mapped == acesToneMapping(Map3(LAMBDA c : mul(c, exposure), clouded))
                gamma == Map3(LAMBDA c : pow(c, Div(Scale, 2200)), mapped)
                dithered == plus(gamma, vec3(dither(fragCoord)))
            IN  Let(dithered, LAMBDA finalColor :
                    [stars |-> stars,
                     color |-> Vector3(Max(finalColor.x, 10), Max(finalColor.y, 10),
                                       Max(finalColor.z, 20))])))))

-----------------------------------------------------------------------------
(* atmosphericScattering applied to view and sun directions of every kind *)

\* View directions: straight down, below the fade band, just below it, on
\* its lower edge, inside it, on the horizon, and above.
ScatterRays ==
    {Vector3(0, -1000, 0), Vector3(866, -500, 0), Vector3(995, -100, 0),
     Vector3(1000, -21, 0), Vector3(1000, -20, 0), Vector3(1000, -19, 0),
     Vector3(1000, 0, 0), Vector3(1000, 20, 0), Vector3(866, 500, 0),
     Vector3(0, 1000, 0)}

ScatterSuns == {Vector3(0, 1000, 0), Vector3(1000, 0, 0), Vector3(866, -500, 0)}

ScatterIntensities == {0, Scale, (3 * Scale) \div 2}

\* rayleighCoeff, mieCoeff and mieDirectionalG over the range of the presets.
ScatterCoefficients ==
    [rayleighCoeff : {Scale \div 2, Scale, (5 * Scale) \div 2},
     mieCoeff : {2, 20},
     mieDirectionalG : {500, 900}]

Scatter ==
    \E rayDir \in ScatterRays, sunDir \in ScatterSuns,
       sunInt \in ScatterIntensities, u \in ScatterCoefficients :
        /\ ~fragment.evaluated
        /\ fragment' = [evaluated |-> TRUE, count |-> 1, shader |-> "scattering",
                        rayDir |-> rayDir, sunDir |-> sunDir, sunInt |-> sunInt,
                        coefficients |-> u,
                        result |-> atmosphericScattering(rayDir, sunDir, sunInt, u)]
        /\ UNCHANGED <<uniforms, prev, op, nops, snapshot, frame>>
        /\ UNCHANGED <<spawnedCubes, scene, world, heap, pauseState, pauseButton, loop>>

ScatterNext ==
    \/ Scatter
    \/ Output

ScatterSpec == InitMain /\ [][ScatterNext]_vars

-----------------------------------------------------------------------------
(* The sky's fragment shader evaluated again and again on one sky *)

\* Skies to shade: the default, SUNSET at quality 2, OVERCAST.
ShaderConfigs == {1, 3, 5}

\* The sun position of a night sky.
NightSun == << Whole(-30), Whole(0) >>

\* The sky as constructed, or after setSunPosition has made it night.
InitShader ==
    \E i \in ShaderConfigs, night \in BOOLEAN :
        /\ prev = setupSky(Configs[i])
        /\ uniforms = IF night
                      THEN setSunPosition(setupSky(Configs[i]), NightSun[1], NightSun[2])
                      ELSE setupSky(Configs[i])
        /\ op = IF night
                THEN [name |-> "setSunPosition", elevation |-> NightSun[1], azimuth |-> NightSun[2]]
                ELSE [name |-> "setupSky", options |-> Configs[i]]
        /\ nops = IF night THEN 1 ELSE 0
        /\ snapshot = NoSnapshot
        /\ frame = NoFrame
        /\ InitApp

\* View samples: a direction into the clouds, one near the horizon and one
\* below it, each seen through several pixels.
ViewSamples ==
    [vWorldDirection : {Vector3(300, 500, -800), Vector3(800, 200, 600), Vector3(1000, -100, 0)},
     fragCoord : {[x |-> 0, y |-> 0], [x |-> 1, y |-> 2]}]

\* One evaluation: the star contribution and the colour of one view sample.
evaluate(u, sample) == sample @@ skyMain(u, sample.vWorldDirection, sample.fragCoord)

\* The shader runs for one fragment; the uniforms are read, never written.
EvaluateSky ==
    \E sample \in ViewSamples :
        /\ fragment.count < MaxEvaluations
        /\ \E out \in {evaluate(uniforms, sample)} :
               fragment' = [evaluated |-> TRUE, count |-> fragment.count + 1, shader |-> "sky",
                            uniforms |-> IF fragment.count = 0 THEN uniforms
                                                               ELSE fragment.uniforms,
                            first |-> IF fragment.count = 0 THEN out ELSE fragment.first,
                            between |-> IF fragment.count <= 1
                                        THEN {}
                                        ELSE fragment.between \cup {fragment.last},
                            last |-> out]
        /\ UNCHANGED <<uniforms, prev, op, nops, snapshot, frame>>
        /\ UNCHANGED <<spawnedCubes, scene, world, heap, pauseState, pauseButton, loop>>

SkyShaderNext == EvaluateSky

SkyShaderSpec == InitShader /\ [][SkyShaderNext]_vars

-----------------------------------------------------------------------------
(* Properties *)

\* clamp(x, lo, hi) as the specification uses it.
Clamp(x, lo, hi) == IF x < lo THEN lo ELSE IF x > hi THEN hi ELSE x

\* The sky position an animate call determines.
SkyPosition(m) ==
    [time |-> m.time, sunDirection |-> m.sunDirection,
     moonDirection |-> m.moonDirection, timeOfDay |-> m.timeOfDay,
     moonIntensity |-> m.moonIntensity]

\* C1: in every reachable state timeOfDay is (sunDirection.y + 1) / 2 (to the
\* half unit the fixed-point halving rounds), and after setSunPosition(e, a)
\* with e in [-90, 90] degrees it is (sin(e) + 1) / 2 within epsilon.
C1_TimeOfDayDerived ==
    /\ Abs(2 * uniforms.timeOfDay - (uniforms.sunDirection.y + Scale)) <= 1
    /\ (op.name = "setSunPosition"
        /\ op.elevation >= Whole(-90) /\ op.elevation <= Whole(90))
       => Abs(2 * uniforms.timeOfDay - (Sin(degToRad(op.elevation)) + Scale))
              <= Eps

\* C1 witness: setSunPosition(-30, 90) moved the sun below the horizon and
\* timeOfDay followed it to 0.25.
C1_Witness ==
    /\ op.name = "setSunPosition"
    /\ op.elevation = Whole(-30)
    /\ uniforms.sunDirection.y < 0
    /\ uniforms.timeOfDay = Scale \div 4
    /\ prev.timeOfDay # uniforms.timeOfDay

\* C2 (as claimed): after applyPreset(name) with a catalog name, every field
\* the preset defines has the preset's value in getConfig's snapshot.
C2_PresetFieldsApplied ==
    (op.name = "applyPreset" /\ op.presetName \in PresetNames)
    => \A key \in DOMAIN SkyPresets[op.presetName] :
           getConfig(uniforms)[uniformFor(key)] = SkyPresets[op.presetName][key]

\* C3: applyPreset(name) with a catalog name leaves sunDirection,
\* moonDirection, timeOfDay, the animated time and qualityLevel as they were,
\* and applying OVERCAST sets enableSunDisc to false.
C3_PresetFrame ==
    (op.name = "applyPreset" /\ op.presetName \in PresetNames)
    => /\ uniforms.sunDirection = prev.sunDirection
       /\ uniforms.moonDirection = prev.moonDirection
       /\ uniforms.timeOfDay = prev.timeOfDay
       /\ uniforms.time = prev.time
       /\ uniforms.qualityLevel = prev.qualityLevel
       /\ (op.presetName = "OVERCAST" => uniforms.enableSunDisc = FALSE)

\* C3 witness: OVERCAST applied after an animate call that had moved the sun,
\* the moon and the animated time away from their constructed values.
C3_Witness ==
    /\ op.name = "applyPreset"
    /\ op.presetName = "OVERCAST"
    /\ prev.enableSunDisc = TRUE
    /\ uniforms.enableSunDisc = FALSE
    /\ prev.time > 0
    /\ uniforms.time = prev.time
    /\ uniforms.moonDirection # createSkyboxMaterial(EmptyObject).moonDirection

\* C4: applyPreset(name) with a name outside the catalog leaves every
\* parameter exactly as it was.
C4_UnknownPresetNoOp ==
    (op.name = "applyPreset" /\ op.presetName \notin PresetNames)
    => uniforms = prev

\* C4 witness: an unknown name applied to a state that already differs from
\* CLEAR_DAY's values and from the constructed sun position.
C4_Witness ==
    /\ op.name = "applyPreset"
    /\ op.presetName \notin PresetNames
    /\ nops = MaxOps
    /\ uniforms.turbidity # SkyPresets["CLEAR_DAY"]["turbidity"]
    /\ uniforms.time > 0

\* C5 (as claimed): a second animate(t, s) right after animate(t, s) changes
\* no parameter.
C5_AnimateIdempotent ==
    [][(/\ op.name = "animate"
        /\ op'.name = "animate"
        /\ op'.time = op.time
        /\ op'.speed = op.speed
        /\ nops' = nops + 1) => uniforms' = uniforms]_vars

\* C6: after animate the moon is antipodal to the sun.
C6_MoonAntipodal ==
    op.name = "animate"
    => /\ uniforms.moonDirection.y = -uniforms.sunDirection.y
       /\ uniforms.moonDirection = Neg(uniforms.sunDirection)

\* C6 witness: an animate call that put the sun off every axis and moved the
\* moon.
C6_Witness ==
    /\ op.name = "animate"
    /\ uniforms.sunDirection.x # 0
    /\ uniforms.sunDirection.y # 0
    /\ uniforms.sunDirection.z # 0
    /\ uniforms.moonDirection # prev.moonDirection
    /\ uniforms.moonDirection = Neg(uniforms.sunDirection)

\* C7: after animate, moonIntensity is 0 when sunDirection.y >= 0 and
\* 1.5 * (-sunDirection.y) otherwise, whatever it was before.
C7_MoonIntensityBySun ==
    op.name = "animate"
    => IF uniforms.sunDirection.y >= 0
       THEN uniforms.moonIntensity = 0
       ELSE uniforms.moonIntensity =
                Mul(-uniforms.sunDirection.y, (15 * Scale) \div 10)

\* C7 witness: animate raised the sun above the horizon from a state whose
\* moonIntensity setMoonIntensity had clamped to 2.
C7_Witness ==
    /\ op.name = "animate"
    /\ uniforms.sunDirection.y > 0
    /\ prev.moonIntensity = 2 * Scale
    /\ uniforms.moonIntensity = 0

\* The sky positions animate(t, s) produces on each freshly constructed
\* controller, for every t and s.
FreshlyAnimated ==
    [t \in Times, s \in Speeds |->
        { SkyPosition(animate(setupSky(Configs[i]), t, s)) : i \in DOMAIN Configs }]

\* C8: after animate(t, s) the animated time is t, and the sky position is the
\* one animate(t, s) produces from any freshly constructed controller: it
\* depends on t and s only.
C8_AnimateHistoryIndependent ==
    op.name = "animate"
    => /\ uniforms.time = op.time
       /\ FreshlyAnimated[op.time, op.speed] = { SkyPosition(uniforms) }

\* C8 witness: animate called with a time smaller than the animated time, from
\* a state whose sun was below the horizon.
C8_Witness ==
    /\ op.name = "animate"
    /\ op.time < prev.time
    /\ prev.sunDirection.y < 0
    /\ uniforms.sunDirection.y > 0
    /\ uniforms.time = op.time

\* C9: after setCloudCoverage(x) getConfig reports clamp(x, 0, 1), and
\* setCloudCoverage with that clamped value changes nothing.
C9_CloudCoverageClamped ==
    op.name = "setCloudCoverage"
    => /\ getConfig(uniforms).cloudCoverage = Clamp(op.coverage, 0, Scale)
       /\ setCloudCoverage(uniforms, getConfig(uniforms).cloudCoverage) = uniforms
       /\ (op.coverage = getConfig(prev).cloudCoverage
           /\ op.coverage = Clamp(op.coverage, 0, Scale)) => uniforms = prev

\* C9 witness: setCloudCoverage(1) repeated on a controller whose coverage an
\* earlier call had already brought to 1.
C9_Witness ==
    /\ op.name = "setCloudCoverage"
    /\ op.coverage = Scale
    /\ prev.cloudCoverage = Scale
    /\ uniforms.cloudCoverage = Scale

\* C10 (as claimed): qualityLevel is 0, 1 or 2 in every reachable state.
C10_QualityInRange == uniforms.qualityLevel \in {0, 1, 2}

\* C11: autoAdjustQuality(currentFPS, targetFPS) on a quality q in {0, 1, 2}
\* gives max(0, q - 1) when currentFPS < 0.8 * targetFPS, min(2, q + 1) when
\* currentFPS > 0.95 * targetFPS and q otherwise, and changes nothing else.
C11_AutoAdjustBands ==
    (op.name = "autoAdjustQuality" /\ prev.qualityLevel \in {0, 1, 2})
    => LET q == prev.qualityLevel
           expected == IF 10 * op.currentFPS < 8 * op.targetFPS THEN Max(0, q - 1)
                       ELSE IF 100 * op.currentFPS > 95 * op.targetFPS
                            THEN Min(2, q + 1)
                            ELSE q
       IN  /\ uniforms = [prev EXCEPT !.qualityLevel = expected]
           /\ (op.targetFPS = Whole(60) /\ op.currentFPS = Whole(40) /\ q = 1)
              => uniforms.qualityLevel = 0
           /\ (op.targetFPS = Whole(60) /\ op.currentFPS = Whole(59) /\ q = 0)
              => uniforms.qualityLevel = 1
           /\ (op.targetFPS = Whole(60) /\ op.currentFPS = Whole(50))
              => uniforms.qualityLevel = q

\* C11 witness: 40 fps against a target of 60 found quality 0 (which setQuality
\* had set) and left it at 0.
C11_Witness ==
    /\ op.name = "autoAdjustQuality"
    /\ op.currentFPS = Whole(40)
    /\ op.targetFPS = Whole(60)
    /\ prev.qualityLevel = 0
    /\ uniforms.qualityLevel = 0
    /\ nops >= 2

\* |a - b| <= Eps for each component of two vectors.
NearVector(a, b) ==
    /\ Abs(a.x - b.x) <= Eps
    /\ Abs(a.y - b.y) <= Eps
    /\ Abs(a.z - b.z) <= Eps

\* C12: constructing the sky with { preset: P } and nothing else, for each
\* catalog preset P, makes getConfig() return P's value for every field P
\* defines; for NIGHT: enableClouds and enableSunDisc false, starIntensity 1.0,
\* moonIntensity 1.5, turbidity 1.0.
C12_PresetConstruction ==
    (/\ op.name = "setupSky"
     /\ DOMAIN op.options = {"preset"}
     /\ op.options["preset"] \in PresetNames)
    => LET P == SkyPresets[op.options["preset"]]
           config == getConfig(uniforms)
       IN  /\ \A key \in DOMAIN P : config[uniformFor(key)] = P[key]
           /\ op.options["preset"] = "NIGHT"
              => /\ config.enableClouds = FALSE
                 /\ config.enableSunDisc = FALSE
                 /\ config.starIntensity = Scale
                 /\ config.moonIntensity = (3 * Scale) \div 2
                 /\ config.turbidity = Scale

\* C12 witness: the sky constructed with { preset: 'HAZY_SUMMER' } reports the
\* preset's turbidity 6.0 and Rayleigh coefficient 1.5.
C12_Witness ==
    /\ op.name = "setupSky"
    /\ DOMAIN op.options = {"preset"}
    /\ op.options["preset"] = "HAZY_SUMMER"
    /\ getConfig(uniforms).turbidity = 6 * Scale
    /\ getConfig(uniforms).rayleighCoeff = (3 * Scale) \div 2

\* C13: each preset-covered field of the constructed parameters is the
\* config's own value if the config has one (0 and false included), else the
\* named preset's value, else the CLEAR_DAY value; also when config.preset is
\* absent or names no catalog entry.
C13_ConstructionPrecedence ==
    op.name = "setupSky"
    => \A key \in DOMAIN SkyPresets["CLEAR_DAY"] :
           uniforms[uniformFor(key)] =
               IF key \in DOMAIN op.options THEN op.options[key]
               ELSE IF "preset" \in DOMAIN op.options
                       /\ op.options["preset"] \in PresetNames
                    THEN SkyPresets[op.options["preset"]][key]
                    ELSE SkyPresets["CLEAR_DAY"][key]

\* C14: the sky constructed with { sunElevation: e, sunAzimuth: a } has the
\* sunDirection and timeOfDay that setSunPosition(e, a) gives on that
\* controller (e = 0 and a = 0 included).
C14_ConstructionSunPosition ==
    (/\ op.name = "setupSky"
     /\ {"sunElevation", "sunAzimuth"} \subseteq DOMAIN op.options)
    => LET viaSetter == setSunPosition(uniforms, op.options["sunElevation"],
                                       op.options["sunAzimuth"])
       IN  /\ NearVector(uniforms.sunDirection, viaSetter.sunDirection)
           /\ Abs(uniforms.timeOfDay - viaSetter.timeOfDay) <= Eps

\* C15: the object getConfig() returned does not alias the controller's state:
\* whatever the controller does afterwards, every entry of the snapshot
\* (vectors included) reads as it did at the call, and a write into a vector of
\* the snapshot leaves the controller's parameters as they were.
C15_SnapshotNotAliased ==
    /\ snapshot.taken
       => \A key \in DOMAIN snapshot.config :
              Read(snapshot.config, key, uniforms) = snapshot.atCall[key]
    /\ op.name = "mutateSnapshot" => uniforms = prev

\* C15 witness: after getConfig(), setSunPosition moved the sun and the
\* snapshot still reads the direction it had at the call.
C15_Witness ==
    /\ snapshot.taken
    /\ op.name = "setSunPosition"
    /\ uniforms.sunDirection # prev.sunDirection
    /\ Read(snapshot.config, "sunDirection", uniforms) = prev.sunDirection
    /\ Read(snapshot.config, "sunDirection", uniforms) # uniforms.sunDirection

\* C16: getConfig() returns one entry for every field of the parameters,
\* timeOfDay included, each equal to the field's current value.
C16_SnapshotComplete ==
    op.name = "getConfig"
    => /\ DOMAIN snapshot.config = DOMAIN uniforms
       /\ \A key \in DOMAIN snapshot.config :
              Read(snapshot.config, key, uniforms) = uniforms[key]

\* C17: a moon position update given an intensity writes that intensity
\* clamped to [0, 2], one given none leaves moonIntensity as it was, and
\* moonIntensity is in [0, 2] after every write of the moon.
C17_MoonIntensityClamped ==
    /\ op.name = "updateMoonPosition"
       => uniforms.moonIntensity =
              IF op.intensity = << >> THEN prev.moonIntensity
              ELSE Clamp(op.intensity[1], 0, 2 * Scale)
    /\ op.name \in {"updateMoonPosition", "setMoonIntensity", "animate"}
       => uniforms.moonIntensity \in 0 .. 2 * Scale

\* |v| = 1 within Eps.
UnitLength(v) == Abs(Length(v) - Scale) <= Eps

\* C20: sunDirection and moonDirection have length 1 (within Eps) after
\* construction and after every setSunPosition, moon position update and
\* animate, whatever the arguments; no other operation writes them.
C20_UnitDirections ==
    /\ UnitLength(uniforms.sunDirection)
    /\ UnitLength(uniforms.moonDirection)
    /\ op.name \notin {"setupSky", "setSunPosition", "updateMoonPosition", "animate"}
       => /\ uniforms.sunDirection = prev.sunDirection
          /\ uniforms.moonDirection = prev.moonDirection

\* C20 witness: a moon position update with azimuth 1 and elevation 1 (radians),
\* made after an animate call, moved the moon to another unit vector.
C20_Witness ==
    /\ op.name = "updateMoonPosition"
    /\ op.azimuth = Scale
    /\ op.elevation = Scale
    /\ uniforms.moonDirection # prev.moonDirection
    /\ uniforms.moonDirection.y > 0
    /\ UnitLength(uniforms.moonDirection)
    /\ nops = 2

\* C18: after animate(time, speed) from a coverage c0, cloudCoverage is
\* max(0, c0 - 0.2 * sin(timeOfDay * PI)), timeOfDay being the parameter that
\* this same call wrote.
C18_CoverageFromTimeOfDay ==
    op.name = "animate"
    => LET variation == Mul(Sin(Mul(uniforms.timeOfDay, PI)), (2 * Scale) \div 10)
       IN  Abs(uniforms.cloudCoverage - Max(0, prev.cloudCoverage - variation)) <= Eps

C21_RadiusNormalizedAway ==
    op.name = "updateSunFromSpherical"
    => LET unit == updateSunFromSpherical(prev, Scale, op.phi, op.theta)
       IN  /\ NearVector(uniforms.sunDirection, unit.sunDirection)
           /\ UnitLength(uniforms.sunDirection)
           /\ uniforms.timeOfDay = Mul(uniforms.sunDirection.y + Scale, Scale \div 2)

\* C27: under a constant measurement autoAdjustQuality does not oscillate.
\* From a quality q0 in {0, 1, 2}, the call made (q0 to q1) and the two calls
\* that would follow with the same currentFPS and targetFPS (q1 to q2 to q3)
\* move in one direction only, by exactly 1 when they move, and the third
\* call changes nothing: the value is settled after at most 2 calls.
C27_NoOscillation ==
    (op.name = "autoAdjustQuality" /\ prev.qualityLevel \in {0, 1, 2})
    => LET q0 == prev.qualityLevel
           q1 == uniforms.qualityLevel
           m2 == autoAdjustQuality(uniforms, op.currentFPS, op.targetFPS)
           q2 == m2.qualityLevel
           q3 == autoAdjustQuality(m2, op.currentFPS, op.targetFPS).qualityLevel
       IN  /\ (q0 <= q1 /\ q1 <= q2 /\ q2 <= q3) \/ (q0 >= q1 /\ q1 >= q2 /\ q2 >= q3)
           /\ Abs(q1 - q0) <= 1 /\ Abs(q2 - q1) <= 1
           /\ q3 = q2
           /\ q1 = q0 => q2 = q1

\* C27 witness: at 40 fps against 60 the quality went from 2 to 1, and the
\* next call with the same measurement takes it to 0.
C27_Witness ==
    /\ op.name = "autoAdjustQuality"
    /\ op.currentFPS = Whole(40)
    /\ prev.qualityLevel = 2
    /\ uniforms.qualityLevel = 1
    /\ autoAdjustQuality(uniforms, op.currentFPS, op.targetFPS).qualityLevel = 0

NotAnimated ==
    {"turbidity", "rayleighCoeff", "mieCoeff", "mieDirectionalG", "sunIntensity",
     "starIntensity", "enableStars", "enableClouds", "enableMoon", "enableSunDisc",
     "qualityLevel"}

\* C29: animate(t, s) changes only the animated time, sunDirection, timeOfDay,
\* moonDirection, moonIntensity and cloudCoverage; every other parameter is as
\* it was; and no operation of the controller other than setQuality changes
\* qualityLevel (autoAdjustQuality is a function of the shader module).
C29_AnimateFrame ==
    /\ op.name = "animate"
       => /\ \A key \in NotAnimated : uniforms[key] = prev[key]
          /\ DOMAIN uniforms = NotAnimated \cup
                 {"time", "sunDirection", "timeOfDay", "moonDirection",
                  "moonIntensity", "cloudCoverage"}
    /\ op.name \notin {"setupSky", "setQuality", "autoAdjustQuality"}
       => uniforms.qualityLevel = prev.qualityLevel

\* C29 witness: animate(8, 0.2) moved the sun of a sky whose sunIntensity is
\* not 1.0 and whose quality is 2, and left both as they were.
C29_Witness ==
    /\ op.name = "animate"
    /\ op.time = Whole(8)
    /\ uniforms.sunDirection # prev.sunDirection
    /\ uniforms.sunIntensity = (3 * Scale) \div 2
    /\ uniforms.qualityLevel = 2


\* The meshes and the bodies of the cubes in the spawner's list.
ListedMeshes == {spawnedCubes[i].mesh.uuid : i \in DOMAIN spawnedCubes}
ListedBodies == {spawnedCubes[i].physicsBody : i \in DOMAIN spawnedCubes}

\* C25: after any sequence of spawn and clearAll the list holds at most 50
\* cubes; a spawn made while it holds 50 removes exactly the oldest cube,
\* keeps the others in order behind the new one, and leaves 50; clearAll
\* leaves none.
C25_AtMostFifty ==
    /\ [](Len(spawnedCubes) <= MAX_CUBES)
    /\ [][/\ (Spawn /\ Len(spawnedCubes) = MAX_CUBES)
                => (/\ Len(spawnedCubes') = MAX_CUBES
                    /\ SubSeq(spawnedCubes', 1, MAX_CUBES - 1) = Tail(spawnedCubes)
                    /\ spawnedCubes'[MAX_CUBES].mesh.uuid = Mesh(heap'))
           /\ (ClearAll => Len(spawnedCubes') = 0)]_vars

\* A spawn has been made at 50 cubes: more cubes created than the list holds.
C25_Witness == heap > MAX_CUBES /\ Len(spawnedCubes) = MAX_CUBES

\* C30: the spawned meshes in the scene and the spawned bodies in the world
\* are exactly those of the listed cubes; an evicted or cleared cube has
\* neither, and nothing else in the scene or the world is touched.
C30_SceneMatchesList ==
    /\ scene = SceneObjects \cup ListedMeshes
    /\ world = WorldBodies \cup ListedBodies
    /\ \A i \in DOMAIN spawnedCubes :
           spawnedCubes[i].mesh.userData.physicsBody = spawnedCubes[i].physicsBody
    /\ \A n \in 1 .. heap :
           Mesh(n) \notin ListedMeshes => Mesh(n) \notin scene /\ Body(n) \notin world

\* Some cube has been evicted or cleared while others are listed.
C30_Witness == Len(spawnedCubes) > 0 /\ heap > Len(spawnedCubes) + 1

\* C26: a frame steps physics exactly when the pause state is false at that
\* frame, and turns the cube and renders whether paused or not; each P key
\* outside an INPUT or TEXTAREA and each click on the Pause button flips the
\* pause state; the label reads Resume exactly when paused.  A frame is a
\* callback the frame limiter lets through.
C26_PauseGatesPhysicsOnly ==
    /\ [](pauseButton.textContent = "Resume" <=> pauseState.isPaused)
    /\ [](loop.last.ran /\ ~loop.last.skipped
            => /\ loop.last.stepped <=> ~loop.last.paused
               /\ loop.last.rotated
               /\ loop.last.rendered)
    /\ [](loop.rotations = loop.renders /\ loop.physicsSteps <= loop.renders)
    /\ [][/\ \A key \in {"p", "P"}, tagName \in TagNames \ {"INPUT", "TEXTAREA"} :
                (KeyDownOf(key, tagName) => pauseState'.isPaused = ~pauseState.isPaused)
           /\ (PauseClick => pauseState'.isPaused = ~pauseState.isPaused)
           /\ ((LoopFrame /\ loop'.last.rendered)
                => loop'.physicsSteps = loop.physicsSteps + Count(~pauseState.isPaused))]_vars

\* A frame ran while paused, after frames that stepped physics: it turned
\* the cube and rendered, and the button reads Resume.
C26_Witness ==
    /\ loop.last.ran /\ ~loop.last.skipped /\ loop.last.paused
    /\ loop.last.rendered /\ ~loop.last.stepped
    /\ loop.physicsSteps > 0
    /\ pauseButton.textContent = "Resume"

\* C24: every division of the glossy lighting computation has its divisor
\* floored at EPSILON, for every input, the light at the shaded point
\* included.
C24_EveryDivisorFloored ==
    (fragment.evaluated /\ fragment.shader = "glossy")
        => \A i \in DOMAIN fragment.divisions : fragment.divisions[i].divisor >= EPSILON

\* C22: atmosphericScattering returns exactly (0, 0, 0) for every view
\* direction with y below -HORIZON_FADE, whatever the sun direction, the
\* sun intensity and the scattering coefficients.
C22_HorizonCutoff ==
    (fragment.evaluated /\ fragment.shader = "scattering" /\ fragment.rayDir.y < -HORIZON_FADE)
        => fragment.result = vec3(0)

\* A view just below the fade band with the sun up and shining, where the
\* same sun scatters light for views above the band.
C22_Witness ==
    /\ fragment.evaluated /\ fragment.shader = "scattering"
    /\ fragment.rayDir.y = -HORIZON_FADE - 1
    /\ fragment.sunDir.y > 0 /\ fragment.sunInt > 0
    /\ fragment.result = vec3(0)
    /\ atmosphericScattering(Neg(fragment.rayDir), fragment.sunDir, fragment.sunInt,
                             fragment.coefficients) # vec3(0)

=============================================================================
